---- MODULE Spec2Model ----
(***************************************************************************)
(* Knowledge-graph pipeline of wifi_networkx: the graph builder of         *)
(* visualize_ms.py (KnowledgeGraphVisualizer), its degree metric and its   *)
(* Louvain community step, the node-link snapshot export_graph_data writes *)
(* and the GraphSearcher of search_graph.py / search_graph_with_llm.py     *)
(* that loads it and answers queries.                                      *)
(*                                                                         *)
(* Strings of the source are written in ASCII here:                        *)
(*   '未知' (unknown type) -> "unknown",  '事件' (event type) -> "event",  *)
(*   '关联' (default triple category) -> "related",                        *)
(*   the description separator "\n• " -> <<"\n", "*", " ">>.               *)
(* Descriptions are sequences of characters, so that Python's substring    *)
(* test `desc not in current_desc` is a test on contiguous subsequences.   *)
(* The HTML tooltip attribute 'title' of nodes and edges is presentation   *)
(* only and is left out of the attribute dictionaries.                     *)
(***************************************************************************)
EXTENDS Integers, Sequences, FiniteSets, TLC

VARIABLES
    G,          \* self.G, the nx.DiGraph: [order, node, edge]
    pc,         \* position of the run inside main / build_graph
    nops,       \* number of records handed to the builder so far
    fed,        \* the record the builder was handed last, and the list it came from
    ingested,   \* history: per (source, target), the relationship records applied
    ops,        \* permutation check: the fixed list of upsert operations
    G2,         \* permutation check: the graph of the second run
    todo2,      \* permutation check: indices the second run has not applied yet
    snapshot,   \* the file graph_analysis_data.json
    searcher,   \* the GraphSearcher process: [G, hashseed], the graph it has
                \* loaded and the order its interpreter's hash seed gives names
    result,     \* what the last call of GraphSearcher.search reported
    session,    \* an interactive program: which one, where its main is, and
                \* what its last turn read and printed
    legacy,     \* visualize.py create_graph: the triples read, G and entity_types
    batcher     \* langchain_triple_ms.py process_json_file on messages.json

vars == <<G, pc, nops, fed, ingested, ops, G2, todo2, snapshot, searcher, result,
          session, legacy, batcher>>

-----------------------------------------------------------------------------
(* Bounds *)

MaxOps == 3

PermLen == 3

-----------------------------------------------------------------------------
(* Values *)

Unknown == "unknown"

EventType == "event"

DefaultCategory == "related"

T1 == "person"

T2 == "place"

\* Python None, as returned by dict.get for a missing key
None == "<None>"

Names == {"A", "B"}

EventNames == {"", "A", "E"}

Sep == <<"\n", "*", " ">>

Frags == {<<>>, <<"a">>, <<"a", "b">>}

LabelMax == 10

\* dict.get(k, default)
Get(d, k, default) == IF k \in DOMAIN d THEN d[k] ELSE default

\* d[k] = v
SetAttr(d, k, v) == (k :> v) @@ d

\* d.update(new)
Update(d, new) == new @@ d

EmptyDict == [k \in {} |-> 0]

\* Python truthiness of a string-or-None value
Truthy(s) == s # None /\ s # ""

\* Python `d in cur` on strings
IsSubstr(d, cur) ==
    \E i \in 0..(Len(cur) - Len(d)) : SubSeq(cur, i + 1, i + Len(d)) = d

-----------------------------------------------------------------------------
(* JSON values of relationship_strength and Python int() on them *)

JInt(n) == [t |-> "int", v |-> n]

\* a JSON string holding the decimal digits of n, such as "3"
JNumStr(n) == [t |-> "numstr", v |-> n]

\* a JSON string that is no number, such as "high"
JText == [t |-> "text", v |-> 0]

\* int(x) raises ValueError on a string that is no number
IntRaises(j) == j.t = "text"

IntOf(j) == j.v

-----------------------------------------------------------------------------
(* networkx DiGraph primitives used by the builder *)

EmptyGraph == [order |-> <<>>, node |-> EmptyDict, edge |-> EmptyDict]

HasNode(g, n) == n \in DOMAIN g.node

HasEdge(g, u, v) == <<u, v>> \in DOMAIN g.edge

\* G.add_node(n, **attrs): creates n, or updates the attributes of an existing n
AddNode(g, n, attrs) ==
    IF HasNode(g, n)
    THEN [g EXCEPT !.node = SetAttr(g.node, n, Update(g.node[n], attrs))]
    ELSE [g EXCEPT !.order = Append(g.order, n),
                   !.node = SetAttr(g.node, n, attrs)]

\* G.add_edge(u, v, **attrs): creates missing endpoints, creates or updates the edge
AddEdge(g, u, v, attrs) ==
    LET g1 == IF HasNode(g, u) THEN g ELSE AddNode(g, u, EmptyDict)
        g2 == IF HasNode(g1, v) THEN g1 ELSE AddNode(g1, v, EmptyDict)
        old == IF HasEdge(g2, u, v) THEN g2.edge[<<u, v>>] ELSE EmptyDict
    IN  [g2 EXCEPT !.edge = SetAttr(g2.edge, <<u, v>>, Update(old, attrs))]

\* the result of a handler: the graph it leaves, and whether it raised
Done(g) == [g |-> g, raised |-> FALSE]

Raise(g) == [g |-> g, raised |-> TRUE]

-----------------------------------------------------------------------------
(* Input records.  An item is one entry of an 'entities', 'relationships'  *)
(* or 'events' list of a data block: a JSON object (isDict, with fields f) *)
(* or some other JSON value (a string, a number, null).                    *)

Item(f) == [isDict |-> TRUE, f |-> f]

NonDict == [isDict |-> FALSE, f |-> EmptyDict]

EntityItems ==
    {Item([entity_name |-> "A", entity_type |-> t, entity_description |-> d]) :
        t \in {Unknown, T1, T2}, d \in Frags}
    \cup {Item([entity_name |-> "B", entity_type |-> t,
                entity_description |-> <<"a">>]) : t \in {Unknown, T1, T2}}
    \cup {Item([entity_name |-> "A"])}
    \cup {Item([entity_type |-> T1, entity_description |-> <<"a">>])}
    \cup {NonDict}

Pairs == {<<"A", "B">>, <<"B", "A">>, <<"A", "A">>}

RelationshipItems ==
    {Item([source_entity |-> p[1], target_entity |-> p[2],
           relationship_description |-> d]) : p \in Pairs, d \in Frags}
    \cup {Item([source_entity |-> p[1], target_entity |-> p[2],
                relationship_description |-> <<"a">>,
                relationship_strength |-> JInt(n)]) :
            p \in {<<"A", "B">>, <<"B", "A">>}, n \in {2, 3}}
    \cup {Item([source_entity |-> "A", target_entity |-> "B",
                relationship_strength |-> j]) : j \in {JInt(0), JNumStr(2), JText}}
    \cup {Item([target_entity |-> "B", relationship_description |-> <<"a">>]),
          Item([source_entity |-> "A", relationship_description |-> <<"a">>])}
    \cup {NonDict}

TripleLists ==
    {<<>>,
     << <<"A", "r1", "B", "c">> >>,
     << <<"A", "r2", "B">> >>,
     << <<"B", "r1">> >>,
     << <<"B", "r1", "A", "c">>, <<"B", "r2", "A", "c">> >>}

EventItems ==
    {Item([event_name |-> "", main_subjects |-> <<>>, triples |-> tl]) :
        tl \in TripleLists}
    \cup {Item([event_name |-> "A", main_subjects |-> <<>>, triples |-> <<>>]),
          Item([event_name |-> "E", main_subjects |-> <<>>, triples |-> <<>>]),
          Item([event_name |-> "E", main_subjects |-> <<"B">>,
                triples |-> << <<"A", "r1", "B", "c">> >>])}
    \cup {NonDict}

-----------------------------------------------------------------------------
(* _process_single_data_block, part 1: one entry of source_data['entities'] *)

\* lines 201-202: the type is replaced only while it is '未知'
MergeType(cur, etype) ==
    IF cur = Unknown /\ etype # Unknown THEN etype ELSE cur

\* lines 205-208: the node description after the merge
MergeNodeDesc(cur, desc) ==
    IF desc # <<>> /\ ~IsSubstr(desc, cur)
    THEN (IF cur # <<>> THEN cur \o Sep \o desc ELSE desc)
    ELSE cur

MergeEntity(g, name, etype, desc) ==
    LET node == g.node[name]
        n1 == IF "group" \in DOMAIN node
              THEN SetAttr(node, "group", MergeType(node.group, etype))
              ELSE node
        cur == Get(n1, "description", <<>>)
        new_desc == MergeNodeDesc(cur, desc)
        n2 == IF new_desc # cur THEN SetAttr(n1, "description", new_desc) ELSE n1
    IN  [g EXCEPT !.node = SetAttr(g.node, name, n2)]

ProcessEntity(g, entity) ==
    IF ~entity.isDict THEN Raise(g)    \* AttributeError: no attribute 'get'
    ELSE
    LET name == Get(entity.f, "entity_name", None)
        etype == Get(entity.f, "entity_type", Unknown)
        desc == Get(entity.f, "entity_description", <<>>)
    IN  IF ~Truthy(name) THEN Done(g)
        ELSE IF HasNode(g, name) THEN Done(MergeEntity(g, name, etype, desc))
        ELSE Done(AddNode(g, name, [group |-> etype, description |-> desc]))

-----------------------------------------------------------------------------
(* _process_single_data_block, part 2: one entry of                        *)
(* source_data['relationships']                                            *)

\* line 246: label = desc[:10] + '...' if len(desc) > 10 else desc
Label(desc) ==
    IF Len(desc) > LabelMax
    THEN SubSeq(desc, 1, LabelMax) \o <<".", ".", ".">>
    ELSE desc

\* a builder that overwrites the weight instead of accumulating it
AddWeightOverwrites(weight, strength) == strength

\* line 236: edge['weight'] += strength
AddWeight(weight, strength) == weight + strength

\* lines 238-241: the edge description after the merge
MergeEdgeDesc(cur, desc) ==
    IF desc # <<>> /\ ~IsSubstr(desc, cur)
    THEN cur \o Sep \o desc
    ELSE cur

\* a builder that adds the endpoint without asking whether it exists
EnsureNodeAlwaysAdds(g, n) == AddNode(g, n, [group |-> Unknown])

\* lines 227-230: an endpoint that is no node yet is created with type '未知'
EnsureNode(g, n) ==
    IF HasNode(g, n) THEN g ELSE AddNode(g, n, [group |-> Unknown])

MergeEdge(g, src, tgt, strength, desc) ==
    LET edge == g.edge[<<src, tgt>>]
        e1 == SetAttr(edge, "weight", AddWeight(edge.weight, strength))
        cur == Get(e1, "description", <<>>)
        new_desc == MergeEdgeDesc(cur, desc)
        e2 == IF new_desc # cur THEN SetAttr(e1, "description", new_desc) ELSE e1
    IN  [g EXCEPT !.edge = SetAttr(g.edge, <<src, tgt>>, e2)]

ProcessRelationship(g, rel) ==
    IF ~rel.isDict THEN Raise(g)       \* AttributeError: no attribute 'get'
    ELSE
    LET src == Get(rel.f, "source_entity", None)
        tgt == Get(rel.f, "target_entity", None)
        desc == Get(rel.f, "relationship_description", <<>>)
        js == Get(rel.f, "relationship_strength", JInt(1))
    IN  IF IntRaises(js) THEN Raise(g) \* ValueError / TypeError of int()
        ELSE IF ~(Truthy(src) /\ Truthy(tgt)) THEN Done(g)
        ELSE
        LET strength == IntOf(js)
            g2 == EnsureNode(EnsureNode(g, src), tgt)
        IN  IF HasEdge(g2, src, tgt)
            THEN (IF "weight" \in DOMAIN g2.edge[<<src, tgt>>]
                  THEN Done(MergeEdge(g2, src, tgt, strength, desc))
                  ELSE Raise(g2))      \* KeyError: 'weight'
            ELSE Done(AddEdge(g2, src, tgt,
                              [label |-> Label(desc), weight |-> strength,
                               description |-> desc]))

-----------------------------------------------------------------------------
(* _process_legacy_events: one entry of source_data['events'] *)

\* lines 267-273: one triple of the event
ProcessTriple(g, triple) ==
    IF Len(triple) >= 3
    THEN LET subj == triple[1]
             rel == triple[2]
             obj == triple[3]
             cat == IF Len(triple) > 3 THEN triple[4] ELSE DefaultCategory
             g1 == AddNode(g, subj, [group |-> Unknown])
             g2 == AddNode(g1, obj, [group |-> Unknown])
         IN  AddEdge(g2, subj, obj, [label |-> <<rel>>, group |-> cat])
    ELSE g

RECURSIVE ProcessTriples(_, _)
ProcessTriples(g, triples) ==
    IF triples = <<>> THEN g
    ELSE ProcessTriples(ProcessTriple(g, Head(triples)), Tail(triples))

ProcessLegacyEvent(g, event) ==
    IF ~event.isDict THEN Raise(g)     \* AttributeError: no attribute 'get'
    ELSE
    LET event_name == Get(event.f, "event_name", "")
        g1 == IF Truthy(event_name)
              THEN AddNode(g, event_name, [group |-> EventType])
              ELSE g
    IN  Done(ProcessTriples(g1, Get(event.f, "triples", <<>>)))

-----------------------------------------------------------------------------
(* _calculate_node_metrics *)

\* a plausible slip: every edge at n is counted once, a self-loop too
DegreeSelfLoopOnce(g, n) ==
    Cardinality({e \in DOMAIN g.edge : e[1] = n \/ e[2] = n})

\* dict(self.G.degree())[n]: in-degree plus out-degree, a self-loop counts twice
Degree(g, n) ==
    Cardinality({e \in DOMAIN g.edge : e[1] = n})
    + Cardinality({e \in DOMAIN g.edge : e[2] = n})

CalculateNodeMetrics(g) ==
    [g EXCEPT !.node = [n \in DOMAIN g.node |->
                            SetAttr(g.node[n], "degree", Degree(g, n))]]

-----------------------------------------------------------------------------
(* _apply_louvain_communities *)

\* position of node n in the insertion order of the graph
Pos(g, n) == CHOOSE i \in 1..Len(g.order) : g.order[i] = n

\* the edges of self.G.to_undirected(): unordered pairs of nodes
UEdges(g) == {{e[1], e[2]} : e \in DOMAIN g.edge}

\* The 'weight' of an edge of self.G.to_undirected(), as Louvain reads it
\* (1 when the attribute is missing).  to_undirected copies the directed
\* edges in adjacency order, each update overwriting the attributes already
\* there, so of u->v and v->u the edge leaving the later-inserted node wins.
UWeight(g, p) ==
    LET u == CHOOSE x \in p : \A y \in p : Pos(g, x) <= Pos(g, y)
        v == CHOOSE y \in p : \A x \in p : Pos(g, x) <= Pos(g, y)
        first == IF HasEdge(g, u, v) THEN g.edge[<<u, v>>] ELSE EmptyDict
        second == IF HasEdge(g, v, u) THEN g.edge[<<v, u>>] ELSE EmptyDict
    IN  Get(Update(first, second), "weight", 1)

RECURSIVE TotalWeight(_, _)
TotalWeight(g, ps) ==
    IF ps = {} THEN 0
    ELSE LET p == CHOOSE x \in ps : TRUE
         IN  UWeight(g, p) + TotalWeight(g, ps \ {p})

\* louvain_communities computes the modularity of the singleton partition
\* first, dividing by the total weighted degree: ZeroDivisionError when the
\* graph has edges and their weights sum to 0.
LouvainRaises(g) == UEdges(g) # {} /\ TotalWeight(g, UEdges(g)) = 0

\* The lists of communities louvain_communities may return, as the index
\* enumerate() gives each node: the singletons in node order when the graph
\* has no edge; otherwise some partition of the nodes (the optimisation
\* itself is not modelled), its blocks numbered 0..k-1.
Communities(g) ==
    IF DOMAIN g.edge = {}
    THEN {[n \in DOMAIN g.node |-> Pos(g, n) - 1]}
    ELSE {cm \in [DOMAIN g.node -> 0..(Len(g.order) - 1)] :
            \A i \in 0..(Len(g.order) - 1) :
                (\E n \in DOMAIN g.node : cm[n] = i)
                => \A j \in 0..i : \E m \in DOMAIN g.node : cm[m] = j}

\* lines 160-165: every node of every community gets the community's index
AssignCommunities(g, cm) ==
    [g EXCEPT !.node = [n \in DOMAIN g.node |->
                            SetAttr(g.node[n], "community", cm[n])]]

-----------------------------------------------------------------------------
(* The snapshot: export_graph_data writes nx.node_link_data(self.G) as     *)
(* JSON, GraphSearcher.load_graph reads it back with nx.node_link_graph.   *)
(* Names, attribute keys and values are JSON strings and integers, which   *)
(* json.dump / json.load write and read back as they are.                  *)

\* the dictionary d without the keys ks
Without(d, ks) == [k \in DOMAIN d \ ks |-> d[k]]

\* G.edges(): the edges by the position of their source node (then, here,
\* of their target node)
RECURSIVE EdgeList(_, _)
EdgeList(g, es) ==
    IF es = {} THEN <<>>
    ELSE LET e == CHOOSE x \in es : \A y \in es :
                      \/ Pos(g, x[1]) < Pos(g, y[1])
                      \/ Pos(g, x[1]) = Pos(g, y[1]) /\ Pos(g, x[2]) <= Pos(g, y[2])
         IN  <<e>> \o EdgeList(g, es \ {e})

\* a plausible slip: the links are written target first
NodeLinkDataReversed(g) ==
    [directed |-> TRUE,
     multigraph |-> FALSE,
     nodes |-> [i \in 1..Len(g.order) |->
                    SetAttr(g.node[g.order[i]], "id", g.order[i])],
     links |-> LET el == EdgeList(g, DOMAIN g.edge)
               IN  [i \in 1..Len(el) |->
                        SetAttr(SetAttr(g.edge[el[i]], "source", el[i][2]),
                                "target", el[i][1])]]

\* nx.node_link_data(G): every node's attributes with its name under 'id',
\* every edge's attributes with its ends under 'source' and 'target'
NodeLinkData(g) ==
    [directed |-> TRUE,
     multigraph |-> FALSE,
     nodes |-> [i \in 1..Len(g.order) |->
                    SetAttr(g.node[g.order[i]], "id", g.order[i])],
     links |-> LET el == EdgeList(g, DOMAIN g.edge)
               IN  [i \in 1..Len(el) |->
                        SetAttr(SetAttr(g.edge[el[i]], "source", el[i][1]),
                                "target", el[i][2])]]

\* the elements of the sequence s, each once, in the order of their first
\* appearance
Distinct(s) ==
    LET first == SelectSeq([i \in 1..Len(s) |-> i],
                           LAMBDA i : \A j \in 1..(i - 1) : s[j] # s[i])
    IN  [k \in 1..Len(first) |-> s[first[k]]]

\* the dictionary left by updating an empty one with the dictionaries ds,
\* one after the other: every key has the value the last of them gives it
Updated(ds) ==
    [k \in UNION {DOMAIN ds[i] : i \in 1..Len(ds)} |->
        ds[CHOOSE i \in 1..Len(ds) :
              /\ k \in DOMAIN ds[i]
              /\ \A j \in (i + 1)..Len(ds) : k \notin DOMAIN ds[j]][k]]

\* nx.node_link_graph(data) for a snapshot that says directed, not
\* multigraph: add_node for every entry of 'nodes', then add_edge for
\* every entry of 'links' (which adds the ends the graph does not have yet)
NodeLinkGraph(data) ==
    LET ids == [i \in 1..Len(data.nodes) |-> data.nodes[i].id]
        ends == [i \in 1..(2 * Len(data.links)) |->
                    IF i % 2 = 1 THEN data.links[(i + 1) \div 2].source
                    ELSE data.links[i \div 2].target]
        order == Distinct(ids \o ends)
        NodeDicts(n) == SelectSeq(data.nodes, LAMBDA d : d.id = n)
        LinkDicts(e) == SelectSeq(data.links,
                                  LAMBDA d : d.source = e[1] /\ d.target = e[2])
    IN  [order |-> order,
         node |-> [n \in {order[i] : i \in 1..Len(order)} |->
                      Without(Updated(NodeDicts(n)), {"id"})],
         edge |-> [e \in {<<data.links[i].source, data.links[i].target>> :
                             i \in 1..Len(data.links)} |->
                      Without(Updated(LinkDicts(e)), {"source", "target"})]]

\* no snapshot file on disk
NoFile == [missing |-> TRUE]

\* a snapshot file that json.load cannot read
Unreadable == [unreadable |-> TRUE]

\* self.G = None
NoGraph == [none |-> TRUE]

\* self.G once load_graph has returned: None when the file is missing or
\* the load raises, else the graph read from it
LoadedGraph(file) ==
    IF file = NoFile \/ file = Unreadable THEN NoGraph ELSE NodeLinkGraph(file)

\* search has not been called
NoResult == [call |-> [prog |-> "none"], report |-> [status |-> "none"]]

\* no interactive program has been started
NoSession ==
    [prog |-> "none", at |-> "none", event |-> "none", line |-> <<>>,
     said |-> "none"]

\* create_graph has not been called
NoLegacy == [at |-> "none"]

\* process_json_file has not been called
NoBatcher == [at |-> "none"]

-----------------------------------------------------------------------------
(* Text as the GraphSearcher sees it.  TLA+ strings have no characters, so *)
(* the table Chars spells the names and types of the snapshots searched;   *)
(* a query is the sequence of the characters typed.                        *)

Chars ==
    ("Cafe" :> <<"C", "a", "f", "e">>) @@
    ("a" :> <<"a">>) @@ ("b" :> <<"b">>) @@ ("c" :> <<"c">>) @@
    ("d" :> <<"d">>) @@ ("e" :> <<"e">>) @@ ("f" :> <<"f">>) @@
    ("g" :> <<"g">>) @@
    ("Place" :> <<"P", "l", "a", "c", "e">>) @@
    ("person" :> <<"p", "e", "r", "s", "o", "n">>) @@
    ("A" :> <<"A">>) @@ ("B" :> <<"B">>) @@
    ("E" :> <<"E">>) @@ ("E1" :> <<"E", "1">>) @@
    ("place" :> <<"p", "l", "a", "c", "e">>) @@
    ("unknown" :> <<"u", "n", "k", "n", "o", "w", "n">>) @@
    ("" :> <<>>)

\* str(x) of a name or a type
Str(x) == Chars[x]

\* the characters in the order of their code points
Alphabet ==
    <<" ", "A", "B", "C", "E", "F", "K", "N", "O", "P", "U", "W",
      "a", "b", "c", "d", "e", "f", "g", "k", "l", "n", "o", "p", "r", "s", "u",
      "w", "x", "y", "z">>

Code(c) == CHOOSE i \in 1..Len(Alphabet) : Alphabet[i] = c

\* str.lower() on one character
LowerChar(c) ==
    CASE c = "A" -> "a" [] c = "B" -> "b" [] c = "C" -> "c" [] c = "E" -> "e"
      [] c = "F" -> "f" [] c = "K" -> "k" [] c = "N" -> "n" [] c = "O" -> "o"
      [] c = "P" -> "p" [] c = "Q" -> "q" [] c = "U" -> "u" [] c = "W" -> "w"
      [] OTHER -> c

\* str.lower()
Lower(s) == [i \in 1..Len(s) |-> LowerChar(s[i])]

\* str.strip(): the text without its leading and trailing blanks
RECURSIVE Strip(_)
Strip(s) ==
    IF s = <<>> THEN s
    ELSE IF Head(s) = " " THEN Strip(Tail(s))
    ELSE IF s[Len(s)] = " " THEN Strip(SubSeq(s, 1, Len(s) - 1))
    ELSE s

\* Python's `a in b` on text, case folded on both sides as the searches do
InLower(a, b) == IsSubstr(Lower(a), Lower(b))

\* Python's a < b on text
RECURSIVE TextLess(_, _)
TextLess(a, b) ==
    IF b = <<>> THEN FALSE
    ELSE IF a = <<>> THEN TRUE
    ELSE IF Head(a) # Head(b) THEN Code(Head(a)) < Code(Head(b))
    ELSE TextLess(Tail(a), Tail(b))

\* whether x is an element of the sequence s
InSeq(x, s) == \E i \in 1..Len(s) : s[i] = x

\* s[:n]
Take(s, n) == SubSeq(s, 1, IF Len(s) < n THEN Len(s) ELSE n)

\* list.sort(key=lambda x: x[1], reverse=True): stable, so entries with
\* equal keys stay in the order they had
RECURSIVE SortDesc(_)
SortDesc(s) ==
    IF s = <<>> THEN <<>>
    ELSE LET t == SortDesc(SubSeq(s, 1, Len(s) - 1))
             x == s[Len(s)]
             k == Cardinality({i \in 1..Len(t) : t[i][2] >= x[2]})
         IN  SubSeq(t, 1, k) \o <<x>> \o SubSeq(t, k + 1, Len(t))

-----------------------------------------------------------------------------
(* GraphSearcher.search and _print_node_details, of search_graph.py and of *)
(* search_graph_with_llm.py.  What they print is kept as a record: the     *)
(* status, the matches by name and by type, and per node printed in detail *)
(* its type, community, community context and relations.                   *)

\* '相關', the relation shown when an edge has neither description nor label
Related == <<"r", "e", "l">>

\* the entity_type the query analysis gives when it knows none
UnknownHint == <<"U", "n", "k", "n", "o", "w", "n">>

\* how many core neighbours and how many other members are listed
TopN == 5

\* how many matches by type are printed in detail
TypeDetailMax == 3

\* `if not self.G`: None, or a graph without nodes
Falsy(g) == "none" \in DOMAIN g \/ g.order = <<>>

Successors(g, n) == {m \in DOMAIN g.node : HasEdge(g, n, m)}

Predecessors(g, n) == {m \in DOMAIN g.node : HasEdge(g, m, n)}

\* iterating a Python set of names: the order follows the hashes of the
\* names, which the interpreter's hash seed fixes for the whole process
SetOrder(seed, S) == SelectSeq(seed, LAMBDA x : x \in S)

\* a plausible slip: `if current_community:`, which community 0 fails
HasCommunityTruthy(g, n) ==
    "community" \in DOMAIN g.node[n] /\ g.node[n].community # 0

\* current_community is not None
HasCommunity(g, n) == "community" \in DOMAIN g.node[n]

\* neighbor_attrs.get('community') == current_community
SameCommunity(g, n, m) ==
    HasCommunity(g, m) /\ g.node[m].community = g.node[n].community

\* the nodes with the community of n, in node order
CommunityMembers(g, n) ==
    SelectSeq(g.order, LAMBDA m : SameCommunity(g, n, m))

Max(a, b) == IF a >= b THEN a ELSE b

\* a plausible slip: only the outgoing edge is looked at
NeighborWeightOutOnly(g, n, m) ==
    IF HasEdge(g, n, m) THEN Max(0, Get(g.edge[<<n, m>>], "weight", 1)) ELSE 0

\* the larger of the weights of n->m and m->n, an edge without weight counting 1
NeighborWeight(g, n, m) ==
    LET out == IF HasEdge(g, n, m)
               THEN Max(0, Get(g.edge[<<n, m>>], "weight", 1)) ELSE 0
    IN  IF HasEdge(g, m, n)
        THEN Max(out, Get(g.edge[<<m, n>>], "weight", 1)) ELSE out

\* community_neighbors after the sort: the neighbours of n in its community
\* with their weights, heaviest first
CommunityNeighbors(g, seed, n) ==
    LET all == SetOrder(seed, Successors(g, n) \cup Predecessors(g, n))
        same == SelectSeq(all, LAMBDA m : SameCommunity(g, n, m))
    IN  SortDesc([i \in 1..Len(same) |-> <<same[i], NeighborWeight(g, n, same[i])>>])

\* a plausible slip: the core neighbours shown are listed once more
OtherMembersRepeatsCore(g, seed, n) ==
    LET rest == SelectSeq(CommunityMembers(g, n), LAMBDA m : m # n)
        member_degrees == SortDesc([i \in 1..Len(rest) |-> <<rest[i], Degree(g, rest[i])>>])
    IN  Take([i \in 1..Len(member_degrees) |-> member_degrees[i][1]], TopN)

\* the other members listed: by degree, without n and without the core
\* neighbours shown
OtherMembers(g, seed, n) ==
    LET rest == SelectSeq(CommunityMembers(g, n), LAMBDA m : m # n)
        member_degrees == SortDesc([i \in 1..Len(rest) |-> <<rest[i], Degree(g, rest[i])>>])
        core == Take(CommunityNeighbors(g, seed, n), TopN)
        shown == SelectSeq(member_degrees,
                           LAMBDA x : ~\E i \in 1..Len(core) : core[i][1] = x[1])
    IN  Take([i \in 1..Len(shown) |-> shown[i][1]], TopN)

\* rel_desc.split('\n')[0]
RECURSIVE FirstLine(_)
FirstLine(text) ==
    IF text = <<>> \/ Head(text) = "\n" THEN <<>>
    ELSE <<Head(text)>> \o FirstLine(Tail(text))

\* the description shown for an edge
RelDesc(attrs) ==
    LET rel_desc == Get(attrs, "description", Get(attrs, "label", Related))
    IN  IF rel_desc # <<>> THEN FirstLine(rel_desc) ELSE Related

\* the relations printed for n -> m
OutEdges(g, n) ==
    {<<m, RelDesc(g.edge[<<n, m>>]), Get(g.edge[<<n, m>>], "weight", 1)>> :
        m \in Successors(g, n)}

\* the relations printed for m -> n
InEdges(g, n) ==
    {<<m, RelDesc(g.edge[<<m, n>>]), Get(g.edge[<<m, n>>], "weight", 1)>> :
        m \in Predecessors(g, n)}

\* _print_node_details(node_name)
NodeDetails(g, seed, n) ==
    [group |-> Get(g.node[n], "group", Unknown),
     community |-> IF HasCommunity(g, n) THEN <<g.node[n].community>> ELSE <<>>,
     context |-> HasCommunity(g, n),
     count |-> IF HasCommunity(g, n) THEN Len(CommunityMembers(g, n)) ELSE 0,
     core |-> IF HasCommunity(g, n)
              THEN Take(CommunityNeighbors(g, seed, n), TopN) ELSE <<>>,
     others |-> IF HasCommunity(g, n) THEN OtherMembers(g, seed, n) ELSE <<>>,
     out |-> OutEdges(g, n),
     in |-> InEdges(g, n)]

\* search returns without printing anything
Silent == [status |-> "silent", names |-> <<>>, types |-> <<>>, details |-> EmptyDict]

\* '未找到匹配的實體'
NotFound == [status |-> "notfound", names |-> <<>>, types |-> <<>>, details |-> EmptyDict]

Found(g, seed, names, types) ==
    [status |-> "found", names |-> names, types |-> types,
     details |-> [n \in {names[i] : i \in 1..Len(names)}
                        \cup {types[i] : i \in 1..Len(Take(types, TypeDetailMax))}
                    |-> NodeDetails(g, seed, n)]]

\* a plausible slip: the test `if not query: return` is missing
SearchTakesBlank(g, seed, query) ==
    IF Falsy(g) THEN Silent
    ELSE LET q == Strip(query)
             matches == SelectSeq(g.order, LAMBDA n : InLower(q, Str(n)))
         IN  IF matches = <<>> THEN NotFound
             ELSE Found(g, seed, matches, <<>>)

\* search_graph.py, GraphSearcher.search(query)
Search(g, seed, query) ==
    IF Falsy(g) THEN Silent
    ELSE LET q == Strip(query)
             matches == SelectSeq(g.order, LAMBDA n : InLower(q, Str(n)))
         IN  IF q = <<>> THEN Silent
             ELSE IF matches = <<>> THEN NotFound
             ELSE Found(g, seed, matches, <<>>)

\* a plausible slip: the type has to contain the hint, not the other way round
TypeRelatedOneWay(entity_type, node_group) == InLower(entity_type, node_group)

\* lines 88-89: the hint is in the type or the type is in the hint
TypeRelated(entity_type, node_group) ==
    InLower(entity_type, node_group) \/ InLower(node_group, entity_type)

\* a plausible slip: a node matched by name is listed by type as well
SearchLLMListsTwice(g, seed, query, entity_type) ==
    IF Falsy(g) THEN Silent
    ELSE LET q == Strip(query)
             Group(n) == Str(Get(g.node[n], "group", ""))
             matches_name ==
                 SelectSeq(g.order, LAMBDA n :
                    /\ InLower(q, Str(n))
                    /\ (entity_type # <<>> /\ entity_type # UnknownHint)
                          => TypeRelated(entity_type, Group(n)))
             matches_type == SelectSeq(g.order, LAMBDA n : InLower(q, Group(n)))
         IN  IF q = <<>> THEN Silent
             ELSE IF matches_name = <<>> /\ matches_type = <<>> THEN NotFound
             ELSE Found(g, seed, matches_name, matches_type)

\* search_graph_with_llm.py, GraphSearcher.search(query, entity_type); an
\* entity_type of None and one of '' are both written <<>>
SearchLLM(g, seed, query, entity_type) ==
    IF Falsy(g) THEN Silent
    ELSE LET q == Strip(query)
             Group(n) == Str(Get(g.node[n], "group", ""))
             matches_name ==
                 SelectSeq(g.order, LAMBDA n :
                    /\ InLower(q, Str(n))
                    /\ (entity_type # <<>> /\ entity_type # UnknownHint)
                          => TypeRelated(entity_type, Group(n)))
             matches_type ==
                 SelectSeq(g.order, LAMBDA n :
                    /\ InLower(q, Group(n))
                    /\ ~InSeq(n, matches_name))
         IN  IF q = <<>> THEN Silent
             ELSE IF matches_name = <<>> /\ matches_type = <<>> THEN NotFound
             ELSE Found(g, seed, matches_name, matches_type)

\* a plausible slip: printing a node's details marks the node as seen
AfterSearchMarks(g, report) ==
    [g EXCEPT !.node = [n \in DOMAIN g.node |->
                           IF n \in DOMAIN report.details
                           THEN SetAttr(g.node[n], "community", 0)
                           ELSE g.node[n]]]

\* self.G once a search has reported: both searches only read the graph
AfterSearch(g, report) == g

\* the orders the hash seed of a process may give the names ns (a sample:
\* as listed, back to front, and both with the first name moved to the end)
Reverse(s) == [i \in 1..Len(s) |-> s[Len(s) + 1 - i]]

Rotate(s) == IF s = <<>> THEN s ELSE Tail(s) \o <<Head(s)>>

HashOrders(ns) == {ns, Reverse(ns), Rotate(ns), Reverse(Rotate(ns))}

-----------------------------------------------------------------------------
(* The run: build_graph feeds every entry of every data block to the       *)
(* builder, then computes the degrees, then runs the community detection.  *)
(* An exception raised while ingesting is caught nowhere: the run ends.    *)

\* history: the strength a relationship record states (1 when unspecified)
StatedStrength(rel) ==
    IF "relationship_strength" \in DOMAIN rel.f
    THEN rel.f.relationship_strength.v
    ELSE 1

\* history: whether the builder gets as far as the edge of the record
ReachesEdge(rel) ==
    /\ rel.isDict
    /\ ~IntRaises(Get(rel.f, "relationship_strength", JInt(1)))
    /\ Truthy(Get(rel.f, "source_entity", None))
    /\ Truthy(Get(rel.f, "target_entity", None))

NoHistory == [p \in {} |-> 0]

Record(h, rel) ==
    LET p == <<rel.f.source_entity, rel.f.target_entity>>
        old == IF p \in DOMAIN h THEN h[p] ELSE [sum |-> 0, cnt |-> 0]
    IN  SetAttr(h, p, [sum |-> old.sum + StatedStrength(rel), cnt |-> old.cnt + 1])

\* no record in hand
NoItem == [kind |-> "none", item |-> NonDict]

Init ==
    /\ G = EmptyGraph
    /\ pc = "ingest"
    /\ nops = 0
    /\ fed = NoItem
    /\ ingested = NoHistory
    /\ ops = <<>>
    /\ G2 = EmptyGraph
    /\ todo2 = {}
    /\ snapshot = NoFile
    /\ searcher = [G |-> NoGraph, hashseed |-> <<>>]
    /\ result = NoResult
    /\ session = NoSession
    /\ legacy = NoLegacy
    /\ batcher = NoBatcher

Ingest(kind, item, r) ==
    /\ pc = "ingest"
    /\ nops < MaxOps
    /\ G' = r.g
    /\ pc' = IF r.raised THEN "crashed" ELSE "ingest"
    /\ nops' = nops + 1
    /\ fed' = [kind |-> kind, item |-> item]
    /\ UNCHANGED <<ops, G2, todo2, snapshot, searcher, result,
                   session, legacy, batcher>>

IngestEntity(entity) ==
    /\ Ingest("entity", entity, ProcessEntity(G, entity))
    /\ UNCHANGED ingested

IngestRelationship(rel) ==
    /\ Ingest("relationship", rel, ProcessRelationship(G, rel))
    /\ ingested' = IF ReachesEdge(rel) /\ ~ProcessRelationship(G, rel).raised
                   THEN Record(ingested, rel)
                   ELSE ingested

IngestEvent(event) ==
    /\ Ingest("event", event, ProcessLegacyEvent(G, event))
    /\ UNCHANGED ingested

\* build_graph line 132, once every source has been ingested
NodeMetrics ==
    /\ pc = "ingest"
    /\ G' = CalculateNodeMetrics(G)
    /\ pc' = "metrics"
    /\ fed' = NoItem
    /\ UNCHANGED <<nops, ingested, ops, G2, todo2, snapshot, searcher, result,
                   session, legacy, batcher>>

\* build_graph line 135, the try block runs to its end
LouvainDetect ==
    /\ pc = "metrics"
    /\ ~LouvainRaises(G)
    /\ \E cm \in Communities(G) : G' = AssignCommunities(G, cm)
    /\ pc' = "built"
    /\ UNCHANGED <<nops, fed, ingested, ops, G2, todo2, snapshot, searcher, result,
                   session, legacy, batcher>>

\* build_graph line 135, louvain_communities raises: the except block only
\* removes 'community_color' attributes, which no node has yet
LouvainFail ==
    /\ pc = "metrics"
    /\ LouvainRaises(G)
    /\ pc' = "built"
    /\ UNCHANGED <<G, nops, fed, ingested, ops, G2, todo2, snapshot, searcher, result,
                   session, legacy, batcher>>

\* a plausible slip: the snapshot is written before the detection has run
ExportGraphDataEarly ==
    /\ pc \in {"metrics", "built"}
    /\ snapshot' = NodeLinkData(G)
    /\ pc' = "exported"
    /\ UNCHANGED <<G, nops, fed, ingested, ops, G2, todo2, searcher, result,
                   session, legacy, batcher>>

\* main line 402: export_graph_data writes the snapshot
ExportGraphData ==
    /\ pc = "built"
    /\ snapshot' = NodeLinkData(G)
    /\ pc' = "exported"
    /\ UNCHANGED <<G, nops, fed, ingested, ops, G2, todo2, searcher, result,
                   session, legacy, batcher>>

\* GraphSearcher.__init__: load_graph reads the snapshot the run has written
LoadGraph ==
    /\ pc = "exported"
    /\ \E seed \in HashOrders(NodeLinkGraph(snapshot).order) :
          searcher' = [G |-> NodeLinkGraph(snapshot), hashseed |-> seed]
    /\ pc' = "loaded"
    /\ UNCHANGED <<G, nops, fed, ingested, ops, G2, todo2, snapshot, result,
                   session, legacy, batcher>>

Next ==
    \/ \E entity \in EntityItems : IngestEntity(entity)
    \/ \E rel \in RelationshipItems : IngestRelationship(rel)
    \/ \E event \in EventItems : IngestEvent(event)
    \/ NodeMetrics
    \/ LouvainDetect
    \/ LouvainFail
    \/ ExportGraphData
    \/ LoadGraph

Spec == Init /\ [][Next]_vars

-----------------------------------------------------------------------------
(* A search session: a GraphSearcher that has loaded one of a family of    *)
(* snapshots answers queries, one after the other.  The snapshots have the *)
(* node "Cafe" and nodes named by one letter, each tied to "Cafe" by edges *)
(* of some weights or by none.                                             *)

Hub == "Cafe"

TypeOf ==
    ("Cafe" :> "Place") @@ ("a" :> "person") @@ ("b" :> "Place") @@
    ("c" :> "person") @@ ("d" :> "person") @@ ("e" :> "person") @@
    ("f" :> "person") @@ ("g" :> "person")

\* an edge without 'weight', as the legacy triples leave them
Bare == -1

NodeDict(n, cm) ==
    LET base == ("id" :> n) @@ ("group" :> TypeOf[n])
    IN  IF n \in DOMAIN cm THEN SetAttr(base, "community", cm[n]) ELSE base

LinkDict(u, v, w) ==
    IF w = Bare
    THEN [source |-> u, target |-> v, label |-> <<"g", "o">>]
    ELSE [source |-> u, target |-> v, weight |-> w, label |-> <<"g", "o">>,
          description |-> <<"g", "o", "\n", "*", " ", "b", "y">>]

\* the links between the hub and the nodes ns: kind[n] gives the weight
\* of Cafe->n and of n->Cafe, 0 for no edge
HubLinks(ns, kind) ==
    LET both == [i \in 1..(2 * Len(ns)) |->
                    LET n == ns[(i + 1) \div 2]
                    IN  IF i % 2 = 1
                        THEN [n |-> n, w |-> IF n = Hub THEN 0 ELSE kind[n][1],
                              link |-> LinkDict(Hub, n, IF n = Hub THEN 0 ELSE kind[n][1])]
                        ELSE [n |-> n, w |-> IF n = Hub THEN 0 ELSE kind[n][2],
                              link |-> LinkDict(n, Hub, IF n = Hub THEN 0 ELSE kind[n][2])]]
        present == SelectSeq(both, LAMBDA x : x.w # 0)
    IN  [i \in 1..Len(present) |-> present[i].link]

MakeSnapshot(ord, kind, cm, extra) ==
    [directed |-> TRUE,
     multigraph |-> FALSE,
     nodes |-> [i \in 1..Len(ord) |-> NodeDict(ord[i], cm)],
     links |-> HubLinks(ord, kind) \o extra]

SmallKinds == {<<0, 0>>, <<5, 0>>, <<3, 5>>, <<0, Bare>>}

SmallSnapshots ==
    {MakeSnapshot(ord, kind, cm, <<>>) :
        ord \in {<<"Cafe", "a", "b">>, <<"b", "a", "Cafe">>},
        kind \in [{"a", "b"} -> SmallKinds],
        cm \in {EmptyDict,
                [n \in {"Cafe", "a", "b"} |-> IF n = "b" THEN 1 ELSE 0]}}

Letters == {"a", "b", "c", "d", "e", "f", "g"}

BigSnapshots ==
    {MakeSnapshot(ord, kind, cm, extra) :
        ord \in {<<"Cafe", "a", "b", "c", "d", "e", "f", "g">>,
                 <<"g", "f", "e", "d", "c", "b", "a", "Cafe">>},
        kind \in {[n \in Letters |-> <<5, 0>>],
                  [n \in Letters |-> IF n \in {"b", "e"} THEN <<5, 0>>
                                     ELSE IF n = "c" THEN <<0, 3>> ELSE <<0, 0>>],
                  [n \in Letters |-> IF n \in {"a", "f"} THEN <<3, 0>>
                                     ELSE IF n = "d" THEN <<2, 5>> ELSE <<0, 0>>]},
        cm \in {[n \in Letters \cup {Hub} |-> 0],
                [n \in Letters \cup {Hub} |-> IF n \in {"e", "f"} THEN 1 ELSE 0]},
        extra \in {<<>>, <<LinkDict("a", "b", 2), LinkDict("c", "b", Bare)>>}}

Queries ==
    {<<"c", "a", "f", "e">>, <<"A">>, <<" ", "a", " ">>, <<"b", " ">>,
     <<"x", "y", "z">>, <<>>, <<" ">>, <<"p", "l", "a", "c", "e">>}

Hints ==
    {<<>>, UnknownHint, <<"P", "e", "r", "s", "o", "n">>,
     <<"a", " ", "p", "l", "a", "c", "e">>}

InitSearch ==
    /\ snapshot \in SmallSnapshots \/ snapshot \in BigSnapshots
    /\ \E seed \in HashOrders(NodeLinkGraph(snapshot).order) :
          searcher = [G |-> NodeLinkGraph(snapshot), hashseed |-> seed]
    /\ result = NoResult
    /\ session = NoSession
    /\ legacy = NoLegacy
    /\ batcher = NoBatcher
    /\ pc = "loaded"
    /\ G = EmptyGraph
    /\ nops = 0
    /\ fed = NoItem
    /\ ingested = NoHistory
    /\ ops = <<>>
    /\ G2 = EmptyGraph
    /\ todo2 = {}

\* what a call of search leaves: the report, and the graph after it
Reported(call, report) ==
    /\ pc = "loaded"
    /\ result' = [call |-> call, report |-> report]
    /\ searcher' = [searcher EXCEPT !.G = AfterSearch(searcher.G, report)]
    /\ UNCHANGED <<G, pc, nops, fed, ingested, ops, G2, todo2, snapshot,
                   session, legacy, batcher>>

\* search_graph.py: one turn of the loop of main
SearchPlain(query) ==
    Reported([prog |-> "search_graph", query |-> query, entity_type |-> <<>>],
             Search(searcher.G, searcher.hashseed, query))

\* search_graph_with_llm.py: one searcher.search(name, etype) of main
SearchWithHint(query, entity_type) ==
    Reported([prog |-> "search_graph_with_llm", query |-> query,
              entity_type |-> entity_type],
             SearchLLM(searcher.G, searcher.hashseed, query, entity_type))

NextSearch ==
    \/ \E query \in Queries : SearchPlain(query)
    \/ \E query \in Queries, entity_type \in Hints : SearchWithHint(query, entity_type)

SpecSearch == InitSearch /\ [][NextSearch]_vars

-----------------------------------------------------------------------------
(* Calls of GraphSearcher.search on any GraphSearcher object a caller of   *)
(* the class may hold: one whose load_graph found no file or no JSON, one  *)
(* that loaded a snapshot without nodes, one that loaded a small snapshot. *)

EmptySnapshot == MakeSnapshot(<<>>, EmptyDict, EmptyDict, <<>>)

InitSearchAny ==
    /\ snapshot \in {NoFile, Unreadable, EmptySnapshot} \cup SmallSnapshots
    /\ \E seed \in HashOrders(IF Falsy(LoadedGraph(snapshot)) THEN <<>>
                              ELSE LoadedGraph(snapshot).order) :
          searcher = [G |-> LoadedGraph(snapshot), hashseed |-> seed]
    /\ result = NoResult
    /\ pc = "loaded"
    /\ G = EmptyGraph
    /\ nops = 0
    /\ fed = NoItem
    /\ ingested = NoHistory
    /\ ops = <<>>
    /\ G2 = EmptyGraph
    /\ todo2 = {}
    /\ session = NoSession
    /\ legacy = NoLegacy
    /\ batcher = NoBatcher

SpecSearchAny == InitSearchAny /\ [][NextSearch]_vars

-----------------------------------------------------------------------------
(* End to end: a run of visualize_ms.py on an input that names the person  *)
(* A, the place B and, twice, the relationship A -> B of strength 4 with   *)
(* the description '去' (here "go"), followed by a search session on the   *)
(* snapshot the run wrote.  The records reach the builder in the order of  *)
(* the data blocks of the input: in any order, when every record has a     *)
(* block of its own, or as two passes that each name A, B and the          *)
(* relationship.                                                           *)

Go == <<"g", "o">>

EntityA ==
    [kind |-> "entity",
     item |-> Item([entity_name |-> "A", entity_type |-> T1,
                    entity_description |-> <<"a">>])]

EntityB ==
    [kind |-> "entity",
     item |-> Item([entity_name |-> "B", entity_type |-> T2,
                    entity_description |-> <<"b">>])]

RelationAB ==
    [kind |-> "relationship",
     item |-> Item([source_entity |-> "A", target_entity |-> "B",
                    relationship_description |-> Go,
                    relationship_strength |-> JInt(4)])]

ScenarioRuns ==
    {run \in [1..4 -> {EntityA, EntityB, RelationAB}] :
        /\ Cardinality({i \in 1..4 : run[i] = EntityA}) = 1
        /\ Cardinality({i \in 1..4 : run[i] = EntityB}) = 1}
    \cup {<<EntityA, EntityB, RelationAB, EntityA, EntityB, RelationAB>>}

InitEndToEnd ==
    /\ ops \in ScenarioRuns
    /\ G = EmptyGraph
    /\ pc = "ingest"
    /\ nops = 0
    /\ fed = NoItem
    /\ ingested = NoHistory
    /\ G2 = EmptyGraph
    /\ todo2 = {}
    /\ snapshot = NoFile
    /\ searcher = [G |-> NoGraph, hashseed |-> <<>>]
    /\ result = NoResult
    /\ session = NoSession
    /\ legacy = NoLegacy
    /\ batcher = NoBatcher

\* build_graph lines 125-129: the next record of the input goes to the builder
IngestNext ==
    /\ pc = "ingest"
    /\ nops < Len(ops)
    /\ LET op == ops[nops + 1]
           r == IF op.kind = "entity"
                THEN ProcessEntity(G, op.item)
                ELSE ProcessRelationship(G, op.item)
       IN  /\ G' = r.g
           /\ pc' = IF r.raised THEN "crashed" ELSE "ingest"
           /\ fed' = op
           /\ ingested' = IF op.kind = "relationship" /\ ReachesEdge(op.item)
                             /\ ~r.raised
                          THEN Record(ingested, op.item)
                          ELSE ingested
    /\ nops' = nops + 1
    /\ UNCHANGED <<ops, G2, todo2, snapshot, searcher, result,
                   session, legacy, batcher>>

\* build_graph line 132, reached when the loop over the input has ended
MetricsAfterAll ==
    /\ nops = Len(ops)
    /\ NodeMetrics

NextEndToEnd ==
    \/ IngestNext
    \/ MetricsAfterAll
    \/ LouvainDetect
    \/ ExportGraphData
    \/ LoadGraph
    \/ \E query \in Queries : SearchPlain(query)
    \/ \E query \in Queries, entity_type \in Hints : SearchWithHint(query, entity_type)

SpecEndToEnd == InitEndToEnd /\ [][NextEndToEnd]_vars

-----------------------------------------------------------------------------
(* visualize.py, create_graph: the graph of the legacy triples.  A triple  *)
(* is the dict parse_triples makes: subject, relation, object, category,   *)
(* event_seq ("2" or "2.1", as characters) and event_name.  The types and  *)
(* categories are written in ASCII: '人物' -> "person", '地點' -> "place", *)
(* '事件' -> "event", '關聯' -> "relation"; the categories '對象' ->       *)
(* "target", '位置' -> "location".                                         *)

MaxTriples == 2

\* '關聯', the type of an entity whose category maps to nothing
RelationType == "relation"

\* CATEGORY_MAPPING, three of its entries
CategoryMapping ==
    ("event" :> EventType) @@ ("target" :> T1) @@ ("location" :> T2)

Digits == {"0", "1", "2", "3", "4", "5", "6", "7", "8", "9"}

\* entity_name.startswith('E') and entity_name[1:].replace('.', '').isdigit()
IsEventId(entity_name) ==
    LET name == Str(entity_name)
        rest == IF name = <<>> THEN <<>>
                ELSE SelectSeq(Tail(name), LAMBDA c : c # ".")
    IN  /\ name # <<>>
        /\ Head(name) = "E"
        /\ rest # <<>>
        /\ \A i \in 1..Len(rest) : rest[i] \in Digits

\* classify_entity(entity_name, category)
ClassifyEntity(entity_name, category) ==
    IF IsEventId(entity_name) THEN EventType
    ELSE IF category \in DOMAIN CategoryMapping THEN CategoryMapping[category]
    ELSE RelationType

\* event_seq.split('.')[0]
RECURSIVE EventOf(_)
EventOf(event_seq) ==
    IF event_seq = <<>> \/ Head(event_seq) = "." THEN <<>>
    ELSE <<Head(event_seq)>> \o EventOf(Tail(event_seq))

\* lines 119-125 and 126-131: the node of an end of the triple
TouchNode(g, n, type, triple) ==
    IF ~HasNode(g, n)
    THEN AddNode(g, n, [entity_type |-> type,
                        events |-> {EventOf(triple.event_seq)},
                        event_names |-> IF triple.event_name # ""
                                        THEN {triple.event_name} ELSE {},
                        connections |-> 0])
    ELSE LET node == g.node[n]
             n1 == SetAttr(node, "events",
                           node.events \cup {EventOf(triple.event_seq)})
             n2 == IF triple.event_name # ""
                   THEN SetAttr(n1, "event_names",
                                n1.event_names \cup {triple.event_name})
                   ELSE n1
         IN  [g EXCEPT !.node = SetAttr(g.node, n, n2)]

\* lines 133-134: G.nodes[n]['connections'] += 1
Connect(g, n) ==
    [g EXCEPT !.node = SetAttr(g.node, n,
        SetAttr(g.node[n], "connections", Get(g.node[n], "connections", 0) + 1))]

\* a plausible slip: the label follows the latest relation
MergeLegacyEdgeRelabels(edge, relation) ==
    SetAttr(SetAttr(SetAttr(edge, "relations", Append(edge.relations, relation)),
                    "weight", edge.weight + 1),
            "label", relation)

\* lines 137-138: one more relation on an edge the graph has
MergeLegacyEdge(edge, relation) ==
    SetAttr(SetAttr(edge, "relations", Append(edge.relations, relation)),
            "weight", edge.weight + 1)

\* lines 136-140
TouchEdge(g, triple) ==
    LET e == <<triple.subject, triple.object>>
    IN  IF HasEdge(g, e[1], e[2])
        THEN [g EXCEPT !.edge = SetAttr(g.edge, e,
                                        MergeLegacyEdge(g.edge[e], triple.relation))]
        ELSE AddEdge(g, e[1], e[2],
                     [relations |-> <<triple.relation>>,
                      categories |-> {triple.category},
                      weight |-> 1,
                      label |-> triple.relation])

\* one turn of the loop of create_graph
CreateGraphTurn(st, triple) ==
    LET subject_type == ClassifyEntity(triple.subject, triple.category)
        obj_type == ClassifyEntity(triple.object, triple.category)
        types == SetAttr(SetAttr(st.entity_types, triple.subject, subject_type),
                         triple.object, obj_type)
        g1 == TouchNode(st.G, triple.subject, subject_type, triple)
        g2 == TouchNode(g1, triple.object, obj_type, triple)
        g3 == Connect(Connect(g2, triple.subject), triple.object)
    IN  [st EXCEPT !.triples = Append(st.triples, triple),
                   !.entity_types = types,
                   !.G = TouchEdge(g3, triple)]

LegacyPairs == {<<"A", "B">>, <<"B", "A">>, <<"A", "A">>, <<"E1", "A">>}

LegacyEvents ==
    {[event_seq |-> <<"1">>, event_name |-> ""],
     [event_seq |-> <<"2", ".", "1">>, event_name |-> "E"]}

LegacyTriples ==
    {[subject |-> p[1], relation |-> r, object |-> p[2], category |-> c,
      event_seq |-> ev.event_seq, event_name |-> ev.event_name] :
        p \in LegacyPairs, r \in {"r1", "r2"},
        c \in {"target", "location", "other"}, ev \in LegacyEvents}

InitLegacy ==
    /\ legacy = [at |-> "reading", triples |-> <<>>, G |-> EmptyGraph,
                 entity_types |-> EmptyDict]
    /\ G = EmptyGraph
    /\ pc = "ingest"
    /\ nops = 0
    /\ fed = NoItem
    /\ ingested = NoHistory
    /\ ops = <<>>
    /\ G2 = EmptyGraph
    /\ todo2 = {}
    /\ snapshot = NoFile
    /\ searcher = [G |-> NoGraph, hashseed |-> <<>>]
    /\ result = NoResult
    /\ session = NoSession
    /\ batcher = NoBatcher

\* lines 105-140: the loop takes the next triple
CreateGraphStep(triple) ==
    /\ legacy.at = "reading"
    /\ Len(legacy.triples) < MaxTriples
    /\ legacy' = CreateGraphTurn(legacy, triple)
    /\ UNCHANGED <<G, pc, nops, fed, ingested, ops, G2, todo2, snapshot,
                   searcher, result, session, batcher>>

\* line 142: return G, entity_types
CreateGraphReturn ==
    /\ legacy.at = "reading"
    /\ legacy' = [legacy EXCEPT !.at = "returned"]
    /\ UNCHANGED <<G, pc, nops, fed, ingested, ops, G2, todo2, snapshot,
                   searcher, result, session, batcher>>

NextLegacy ==
    \/ \E triple \in LegacyTriples : CreateGraphStep(triple)
    \/ CreateGraphReturn

SpecLegacy == InitLegacy /\ [][NextLegacy]_vars

-----------------------------------------------------------------------------
(* langchain_triple_ms.py, process_json_file on a conversation: the        *)
(* messages of messages.json go to the extraction service in batches, and  *)
(* every response that parses adds an entry to both returned lists.  A     *)
(* message is written as its position in the file; `bad` is the position   *)
(* of a message without 'role' or 'content' (0 when there is none).  The   *)
(* service is outside the repository: its response is any of               *)
(*   "object"  a JSON object with entities or relationships,               *)
(*   "garbage" text parse_json_response finds no JSON in (it returns None),*)
(*   "empty"   the JSON object {}, which parses and is falsy,              *)
(*   "number"  a JSON number, which parses and on which                    *)
(*             convert_json_to_text_format raises TypeError,               *)
(*   "failure" no response, the call to the service raises.                *)

MaxMessages == 41

BatchSize == 20

Min(a, b) == IF a <= b THEN a ELSE b

\* a plausible slip: the batch count is rounded down
NumBatchesRoundedDown(total_messages) == total_messages \div BatchSize

\* line 183: (total_messages + batch_size - 1) // batch_size
NumBatches(total_messages) == (total_messages + BatchSize - 1) \div BatchSize

\* lines 188-190: data[start_idx:end_idx]
BatchMessages(data, batch_idx) ==
    LET start_idx == batch_idx * BatchSize
        end_idx == Min(start_idx + BatchSize, Len(data))
    IN  SubSeq(data, start_idx + 1, end_idx)

Responses == {"object", "garbage", "empty", "number", "failure"}

\* parse_json_response(response) is truthy
ParsedTruthy(response) == response \in {"object", "number"}

\* the turn of the loop raises: msg["role"] on a message without the key,
\* the call to the service, or convert_json_to_text_format on a number
TurnRaises(batch_messages, bad, response) ==
    \/ InSeq(bad, batch_messages)
    \/ response = "failure"
    \/ response = "number"

\* lines 236-241: an exception ends the function with two empty lists
ReturnedEmpty(b) ==
    [b EXCEPT !.at = "returned", !.raised = TRUE,
              !.ret = [parsed |-> <<>>, texts |-> <<>>]]

\* lines 187-213: one turn of the loop over the batches
BatchTurn(b, response) ==
    LET batch_messages == BatchMessages(b.data, b.batch_idx)
        sent == [b EXCEPT !.batches = Append(b.batches, batch_messages),
                          !.responses = Append(b.responses, response)]
    IN  IF InSeq(b.bad, batch_messages) THEN ReturnedEmpty(b)
        ELSE IF TurnRaises(batch_messages, b.bad, response) THEN ReturnedEmpty(sent)
        ELSE IF ParsedTruthy(response)
        THEN [sent EXCEPT !.batch_idx = b.batch_idx + 1,
                          !.parsed = Append(b.parsed, [of |-> b.batch_idx + 1]),
                          !.texts = Append(b.texts, [text_of |-> b.batch_idx + 1])]
        ELSE [sent EXCEPT !.batch_idx = b.batch_idx + 1]

InitBatch ==
    /\ \E n \in 0..MaxMessages, bad \in {0, BatchSize + 1} :
          batcher = [at |-> "loop",
                     data |-> [i \in 1..n |-> i],
                     bad |-> bad,
                     batch_idx |-> 0,
                     batches |-> <<>>,
                     responses |-> <<>>,
                     parsed |-> <<>>,
                     texts |-> <<>>,
                     raised |-> FALSE,
                     ret |-> [parsed |-> <<>>, texts |-> <<>>]]
    /\ G = EmptyGraph
    /\ pc = "ingest"
    /\ nops = 0
    /\ fed = NoItem
    /\ ingested = NoHistory
    /\ ops = <<>>
    /\ G2 = EmptyGraph
    /\ todo2 = {}
    /\ snapshot = NoFile
    /\ searcher = [G |-> NoGraph, hashseed |-> <<>>]
    /\ result = NoResult
    /\ session = NoSession
    /\ legacy = NoLegacy

\* the loop of lines 187-213 takes the next batch
ProcessBatch(response) ==
    /\ batcher.at = "loop"
    /\ batcher.batch_idx < NumBatches(Len(batcher.data))
    /\ batcher' = BatchTurn(batcher, response)
    /\ UNCHANGED <<G, pc, nops, fed, ingested, ops, G2, todo2, snapshot,
                   searcher, result, session, legacy>>

\* line 234, after the last batch: return all_parsed_jsons, all_text_outputs
ReturnLists ==
    /\ batcher.at = "loop"
    /\ batcher.batch_idx = NumBatches(Len(batcher.data))
    /\ batcher' = [batcher EXCEPT !.at = "returned",
                                  !.ret = [parsed |-> batcher.parsed,
                                           texts |-> batcher.texts]]
    /\ UNCHANGED <<G, pc, nops, fed, ingested, ops, G2, todo2, snapshot,
                   searcher, result, session, legacy>>

NextBatch ==
    \/ \E response \in Responses : ProcessBatch(response)
    \/ ReturnLists

SpecBatch == InitBatch /\ [][NextBatch]_vars

-----------------------------------------------------------------------------
(* The interactive programs: main of search_graph.py, of                   *)
(* search_graph_with_llm.py and of search_node_relations.py.  Each builds  *)
(* its searcher, returns at once when no graph was loaded, and else reads  *)
(* lines until a sentinel or an interrupt.  `session` holds the program,   *)
(* where its main is ("start", "prompt", "ended"), what the last turn read *)
(* (a line, an interrupt, the end of the input) and what it printed.       *)

Programs == {"search_graph", "search_graph_with_llm", "search_node_relations"}

\* ['q', 'exit', 'quit']
Sentinels == {<<"q">>, <<"e", "x", "i", "t">>, <<"q", "u", "i", "t">>}

Lines ==
    {<<"q">>, <<"Q">>, <<"e", "x", "i", "t">>, <<"q", "u", "i", "t">>,
     <<" ", "q">>, <<"c", "a", "f", "e">>, <<"a">>, <<"b", " ">>,
     <<"x", "y", "z">>, <<>>, <<" ">>}

\* what analyze_query_with_llm makes of a line: the line itself with type
\* "Unknown" (no model, or its answer was no JSON), one entity with a type,
\* or entities that are no dicts (entity.get raises)
Analyses(line) ==
    {[entities |-> "dicts", entity_name |-> line, entity_type |-> UnknownHint],
     [entities |-> "dicts", entity_name |-> line,
      entity_type |-> <<"P", "e", "r", "s", "o", "n">>],
     [entities |-> "other", entity_name |-> line, entity_type |-> <<>>]}

\* main breaks out of its loop
Ended(s, event, line, said) ==
    [s EXCEPT !.at = "ended", !.event = event, !.line = line, !.said = said]

\* main goes round its loop
Prompted(s, event, line, said) ==
    [s EXCEPT !.at = "prompt", !.event = event, !.line = line, !.said = said]

\* a plausible slip: no `except Exception` around the turn, the exception
\* ends the program
Uncaught(s, event, line) == Ended(s, event, line, "error")

\* except Exception as e: print(f"發生錯誤: {e}"), and round the loop
Caught(s, event, line) == Prompted(s, event, line, "error")

\* search_node_relations.py, _print_node_relations raises: label is None
\* for an edge without 'description', and None has no replace
RelationsRaise(g, n) ==
    \/ \E m \in Successors(g, n) : "description" \notin DOMAIN g.edge[<<n, m>>]
    \/ \E m \in Predecessors(g, n) : "description" \notin DOMAIN g.edge[<<m, n>>]

\* search_node_relations.py, search_similar_nodes(query): what it prints,
\* or that it raises
SearchSimilarNodes(g, query) ==
    LET found_nodes == SelectSeq(g.order, LAMBDA n : InLower(query, Str(n)))
    IN  IF found_nodes = <<>> THEN "notfound"
        ELSE IF \E i \in 1..Len(found_nodes) : RelationsRaise(g, found_nodes[i])
             THEN "raises"
        ELSE "found"

\* the snapshot files a session may find: none, one that is no JSON, one
\* without nodes, and small graphs whose edges have descriptions or none
SessionSnapshots ==
    {NoFile, Unreadable, EmptySnapshot}
    \cup {MakeSnapshot(ord, kind, cm, <<>>) :
            ord \in {<<"Cafe", "a", "b">>, <<"b", "a", "Cafe">>},
            kind \in [{"a", "b"} -> {<<5, 0>>, <<0, Bare>>}],
            cm \in {EmptyDict,
                    [n \in {"Cafe", "a", "b"} |-> IF n = "b" THEN 1 ELSE 0]}}

InitSession ==
    /\ snapshot \in SessionSnapshots
    /\ \E prog \in Programs :
          session = [prog |-> prog, at |-> "start", event |-> "none",
                     line |-> <<>>, said |-> "none"]
    /\ searcher = [G |-> NoGraph, hashseed |-> <<>>]
    /\ result = NoResult
    /\ pc = "ingest"
    /\ G = EmptyGraph
    /\ nops = 0
    /\ fed = NoItem
    /\ ingested = NoHistory
    /\ ops = <<>>
    /\ G2 = EmptyGraph
    /\ todo2 = {}
    /\ legacy = NoLegacy
    /\ batcher = NoBatcher

\* main up to its loop: the searcher loads the snapshot, and main returns
\* when there is no graph or the graph has no nodes
StartSession ==
    /\ session.at = "start"
    /\ LET g == LoadedGraph(snapshot)
       IN  /\ \E seed \in HashOrders(IF Falsy(g) THEN <<>> ELSE g.order) :
                 searcher' = [G |-> g, hashseed |-> seed]
           /\ session' = IF Falsy(g)
                         THEN Ended(session, "none", <<>>,
                                    IF snapshot = NoFile THEN "missing file"
                                    ELSE IF snapshot = Unreadable THEN "load failed"
                                    ELSE "loaded")
                         ELSE Prompted(session, "none", <<>>, "loaded")
    /\ UNCHANGED <<G, pc, nops, fed, ingested, ops, G2, todo2, snapshot, result,
                   legacy, batcher>>

\* search_graph.py: one turn of the loop of main on a line read
PlainSession(line) ==
    /\ session.prog = "search_graph"
    /\ session.at = "prompt"
    /\ IF Lower(line) \in Sentinels
       THEN /\ session' = Ended(session, "line", line, "bye")
            /\ UNCHANGED <<searcher, result>>
       ELSE LET report == Search(searcher.G, searcher.hashseed, line)
            IN  /\ session' = Prompted(session, "line", line, report.status)
                /\ result' = [call |-> [prog |-> "search_graph", query |-> line,
                                        entity_type |-> <<>>],
                              report |-> report]
                /\ searcher' = [searcher EXCEPT !.G = AfterSearch(searcher.G, report)]
    /\ UNCHANGED <<G, pc, nops, fed, ingested, ops, G2, todo2, snapshot,
                   legacy, batcher>>

\* search_graph_with_llm.py: one turn of the loop of main on a line read
LLMSession(line, analysis) ==
    /\ session.prog = "search_graph_with_llm"
    /\ session.at = "prompt"
    /\ IF Lower(line) \in Sentinels
       THEN /\ session' = Ended(session, "line", line, "bye")
            /\ UNCHANGED <<searcher, result>>
       ELSE IF analysis.entities # "dicts"
       THEN /\ session' = Caught(session, "line", line)
            /\ UNCHANGED <<searcher, result>>
       ELSE LET report == SearchLLM(searcher.G, searcher.hashseed,
                                    analysis.entity_name, analysis.entity_type)
            IN  /\ session' = Prompted(session, "line", line,
                                       IF report.status = "found" THEN "found"
                                       ELSE "notfound")
                /\ result' = [call |-> [prog |-> "search_graph_with_llm",
                                        query |-> analysis.entity_name,
                                        entity_type |-> analysis.entity_type],
                              report |-> report]
                /\ searcher' = [searcher EXCEPT !.G = AfterSearch(searcher.G, report)]
    /\ UNCHANGED <<G, pc, nops, fed, ingested, ops, G2, todo2, snapshot,
                   legacy, batcher>>

\* search_node_relations.py: one turn of the loop of main on a line read
ExplorerSession(line) ==
    /\ session.prog = "search_node_relations"
    /\ session.at = "prompt"
    /\ LET query == Strip(line)
           said == SearchSimilarNodes(searcher.G, query)
       IN  session' = IF Lower(query) \in Sentinels
                      THEN Ended(session, "line", line, "bye")
                      ELSE IF query = <<>>
                      THEN Prompted(session, "line", line, "silent")
                      ELSE IF said = "raises"
                      THEN Caught(session, "line", line)
                      ELSE Prompted(session, "line", line, said)
    /\ UNCHANGED <<G, pc, nops, fed, ingested, ops, G2, todo2, snapshot,
                   searcher, result, legacy, batcher>>

\* Ctrl-C at the prompt: KeyboardInterrupt, and main breaks
Interrupt ==
    /\ session.at = "prompt"
    /\ session' = Ended(session, "interrupt", <<>>, "interrupted")
    /\ UNCHANGED <<G, pc, nops, fed, ingested, ops, G2, todo2, snapshot,
                   searcher, result, legacy, batcher>>

\* the input has ended: input() raises EOFError, an Exception
EndOfInput ==
    /\ session.at = "prompt"
    /\ session' = Caught(session, "eof", <<>>)
    /\ UNCHANGED <<G, pc, nops, fed, ingested, ops, G2, todo2, snapshot,
                   searcher, result, legacy, batcher>>

NextSession ==
    \/ StartSession
    \/ \E line \in Lines : PlainSession(line)
    \/ \E line \in Lines : \E analysis \in Analyses(line) : LLMSession(line, analysis)
    \/ \E line \in Lines : ExplorerSession(line)
    \/ Interrupt
    \/ EndOfInput

SpecSession == InitSession /\ [][NextSession]_vars

-----------------------------------------------------------------------------
(* Claims about the graph builder.  Fed(kind) says that the step hands the *)
(* builder a record of that kind.                                          *)

Fed(kind) == nops' = nops + 1 /\ fed'.kind = kind

SrcOf(rel) == Get(rel.f, "source_entity", None)

TgtOf(rel) == Get(rel.f, "target_entity", None)

DescOf(rel) == Get(rel.f, "relationship_description", <<>>)

\* C1: every (source, target) pair for which relationship records were
\* applied is held as one edge whose weight is the sum of the strengths
\* those records state (1 when a record states none).
C1_WeightIsSumOfStrengths ==
    \A p \in DOMAIN ingested :
        /\ HasEdge(G, p[1], p[2])
        /\ G.edge[p].weight = ingested[p].sum

\* the same pair ingested twice, with strengths 2 and 3: one edge of weight 5
C1_Witness ==
    \E p \in DOMAIN ingested :
        /\ ingested[p].cnt = 2
        /\ ingested[p].sum = 5
        /\ G.edge[p].weight = 5

\* C3 (as claimed): a node's type changes only from unknown to a concrete
\* value; a concrete type is never changed by any later operation.
C3_TypeStability ==
    [][\A n \in DOMAIN G.node :
          G.node[n].group # Unknown => G'.node[n].group = G.node[n].group]_vars

WellFormedEntity(entity) ==
    entity.isDict /\ Truthy(Get(entity.f, "entity_name", None))

WellFormedRelationship(rel) ==
    /\ rel.isDict
    /\ Truthy(SrcOf(rel))
    /\ Truthy(TgtOf(rel))
    /\ Get(rel.f, "relationship_strength", JInt(1)).t \in {"int", "numstr"}

WellFormedEvent(event) == event.isDict

WellFormed(rec) ==
    CASE rec.kind = "entity" -> WellFormedEntity(rec.item)
      [] rec.kind = "relationship" -> WellFormedRelationship(rec.item)
      [] rec.kind = "event" -> WellFormedEvent(rec.item)
      [] OTHER -> FALSE

\* C4 (as claimed): applying a well-formed entity, relationship or legacy
\* event record never raises, whatever was applied before it.
C4_NoOperationFails ==
    pc = "crashed" => ~WellFormed(fed)

\* the weight the specification gives a relationship record
NormalizedWeight(rel) ==
    LET js == Get(rel.f, "relationship_strength", JInt(1))
    IN  IF js.t \in {"int", "numstr"} THEN (IF js.v < 1 THEN 1 ELSE js.v) ELSE 1

\* C5 (as claimed): a relationship record contributes its strength, 1 when
\* the strength is missing or not a number, and never less than 1; so every
\* edge made from relationship records has weight >= 1.
C5_StrengthDefaultedAndClamped ==
    [][LET rel == fed'.item
           p == <<SrcOf(rel), TgtOf(rel)>>
       IN  (/\ Fed("relationship")
            /\ rel.isDict /\ Truthy(SrcOf(rel)) /\ Truthy(TgtOf(rel))
            /\ (p \in DOMAIN G.edge => "weight" \in DOMAIN G.edge[p]))
           => /\ pc' = "ingest"
              /\ p \in DOMAIN G'.edge
              /\ G'.edge[p].weight
                    = (IF p \in DOMAIN G.edge THEN G.edge[p].weight ELSE 0)
                      + NormalizedWeight(rel)
              /\ G'.edge[p].weight >= 1]_vars

\* C6 (as claimed): a malformed record is dropped on its own: the graph is
\* unchanged and the run goes on to the records after it.
C6_MalformedDropped ==
    [][(nops' = nops + 1 /\ ~WellFormed(fed')) => (G' = G /\ pc' = "ingest")]_vars

IsPrefix(s, t) == Len(s) <= Len(t) /\ SubSeq(t, 1, Len(s)) = s

\* the append-once-unique rule of the specification, as entities follow it
AppendOnceUnique(cur, desc) ==
    IF desc # <<>> /\ ~IsSubstr(desc, cur)
    THEN (IF cur = <<>> THEN desc ELSE cur \o Sep \o desc)
    ELSE cur

\* C7 (as claimed): on upsert of an existing node or edge the description
\* becomes AppendOnceUnique(old, incoming), for edges as for entities, also
\* when the old description is empty; the old description stays a prefix.
C7_AppendOnceUnique ==
    [][/\ (/\ Fed("entity")
           /\ WellFormedEntity(fed'.item)
           /\ HasNode(G, fed'.item.f.entity_name))
          => LET n == fed'.item.f.entity_name
                 old == Get(G.node[n], "description", <<>>)
                 new == Get(G'.node[n], "description", <<>>)
             IN  /\ new = AppendOnceUnique(old,
                            Get(fed'.item.f, "entity_description", <<>>))
                 /\ IsPrefix(old, new)
       /\ (/\ Fed("relationship")
           /\ ReachesEdge(fed'.item)
           /\ HasEdge(G, SrcOf(fed'.item), TgtOf(fed'.item))
           /\ pc' = "ingest")
          => LET p == <<SrcOf(fed'.item), TgtOf(fed'.item)>>
                 old == Get(G.edge[p], "description", <<>>)
                 new == Get(G'.edge[p], "description", <<>>)
             IN  /\ new = AppendOnceUnique(old, DescOf(fed'.item))
                 /\ IsPrefix(old, new)]_vars

EndpointsExist ==
    \A e \in DOMAIN G.edge : HasNode(G, e[1]) /\ HasNode(G, e[2])

\* C8: both endpoints of every edge are nodes; a relationship record creates
\* a missing endpoint with type unknown (and nothing else), and leaves an
\* endpoint that exists as it was.
C8_EndpointsExist ==
    /\ []EndpointsExist
    /\ [][(Fed("relationship") /\ ReachesEdge(fed'.item))
          => \A n \in {SrcOf(fed'.item), TgtOf(fed'.item)} :
                IF HasNode(G, n)
                THEN G'.node[n] = G.node[n]
                ELSE HasNode(G', n) /\ G'.node[n] = [group |-> Unknown]]_vars

\* a relationship record found its source as a typed, described entity and
\* created its target
C8_Witness ==
    /\ fed.kind = "relationship"
    /\ ReachesEdge(fed.item)
    /\ pc = "ingest"
    /\ SrcOf(fed.item) # TgtOf(fed.item)
    /\ G.node[SrcOf(fed.item)] = [group |-> T1, description |-> <<"a">>]
    /\ G.node[TgtOf(fed.item)] = [group |-> Unknown]

\* parse_triples joins the main subjects of an event with '和' (here "&")
RECURSIVE JoinSubjects(_)
JoinSubjects(ms) ==
    IF Len(ms) = 1 THEN ms[1] ELSE ms[1] \o "&" \o JoinSubjects(Tail(ms))

\* C9 (as claimed): an event with main subjects yields an edge from the
\* joined main subjects to the event name; every triple entry yields an edge
\* subject -> object that carries a weight, 1 for a new edge and one more
\* for every further occurrence of the pair, with an empty description and,
\* when new, the relation as its label.
C9_LegacyEdges ==
    [][(Fed("event") /\ fed'.item.isDict)
       => LET ev == fed'.item.f
              ms == Get(ev, "main_subjects", <<>>)
              triples == Get(ev, "triples", <<>>)
              full == {i \in 1..Len(triples) : Len(triples[i]) >= 3}
              PairOf(i) == <<triples[i][1], triples[i][3]>>
          IN  /\ ms # <<>> => HasEdge(G', JoinSubjects(ms), Get(ev, "event_name", ""))
              /\ \A i \in full :
                    LET p == PairOf(i)
                        first == CHOOSE j \in full :
                                    PairOf(j) = p /\ \A k \in full : PairOf(k) = p => j <= k
                    IN  /\ p \in DOMAIN G'.edge
                        /\ "weight" \in DOMAIN G'.edge[p]
                        /\ G'.edge[p].weight
                              = (IF p \in DOMAIN G.edge
                                 THEN Get(G.edge[p], "weight", 0) ELSE 0)
                                + Cardinality({j \in full : PairOf(j) = p})
                        /\ p \notin DOMAIN G.edge
                              => /\ Get(G'.edge[p], "description", <<>>) = <<>>
                                 /\ G'.edge[p].label = <<triples[first][2]>>]_vars

\* C10 (as claimed): once the community detection of build_graph has run,
\* every node carries a community id.
C10_PartitionTotal ==
    pc = "built" => \A n \in DOMAIN G.node : "community" \in DOMAIN G.node[n]

\* C11 (as claimed): when the community detection raises, the run goes on
\* and afterwards every node carries a community id of its own, different
\* from the id of every other node.  (The detection leaves the edges alone,
\* so LouvainRaises(G) still tells, once built, that it has raised.)
C11_SingletonFallback ==
    (pc = "built" /\ LouvainRaises(G))
        => \A n \in DOMAIN G.node :
              /\ "community" \in DOMAIN G.node[n]
              /\ \A m \in DOMAIN G.node \ {n} :
                    /\ "community" \in DOMAIN G.node[m]
                    /\ G.node[m].community # G.node[n].community

\* the weight of the directed edge u->v, 0 when there is no such edge
DirectedWeight(g, u, v) ==
    IF HasEdge(g, u, v) THEN Get(g.edge[<<u, v>>], "weight", 1) ELSE 0

\* the sum of the weights of the directed edges between the nodes of p
SumOfDirections(g, p) ==
    LET u == CHOOSE x \in p : TRUE
        v == CHOOSE y \in p : p = {u, y}
    IN  IF u = v THEN DirectedWeight(g, u, u)
        ELSE DirectedWeight(g, u, v) + DirectedWeight(g, v, u)

\* C12 (as claimed): in the undirected projection handed to the community
\* detection, the edge between A and B weighs weight(A->B) + weight(B->A),
\* a missing direction counting as 0.
C12_ProjectionSumsWeights ==
    pc = "metrics" => \A p \in UEdges(G) : UWeight(G, p) = SumOfDirections(G, p)

\* C20: the graph the GraphSearcher loads from the snapshot has the nodes
\* and the directed edges of the graph that was exported, and every node and
\* every edge has the attributes it had there, with the same values.
C20_SnapshotRoundTrip ==
    pc = "loaded" =>
        /\ DOMAIN searcher.G.node = DOMAIN G.node
        /\ DOMAIN searcher.G.edge = DOMAIN G.edge
        /\ \A n \in DOMAIN G.node :
              /\ DOMAIN searcher.G.node[n] = DOMAIN G.node[n]
              /\ \A k \in DOMAIN G.node[n] : searcher.G.node[n][k] = G.node[n][k]
        /\ \A e \in DOMAIN G.edge :
              /\ DOMAIN searcher.G.edge[e] = DOMAIN G.edge[e]
              /\ \A k \in DOMAIN G.edge[e] : searcher.G.edge[e][k] = G.edge[e][k]

\* a graph with typed, described nodes in communities and a weighted,
\* described edge in one direction only has been exported and loaded
C20_Witness ==
    /\ pc = "loaded"
    /\ HasEdge(G, "A", "B") /\ ~HasEdge(G, "B", "A")
    /\ {"weight", "label", "description"} \subseteq DOMAIN G.edge[<<"A", "B">>]
    /\ G.edge[<<"A", "B">>].description # <<>>
    /\ {"group", "description", "degree", "community"} \subseteq DOMAIN G.node["A"]
    /\ HasEdge(searcher.G, "A", "B")

\* C22 (as claimed): a run whose input file is missing or unreadable (its
\* raw data is then empty, no record is ingested), or whose graph has no
\* nodes, stops without exporting a snapshot.
C22_StructuralFailuresFatal ==
    snapshot # NoFile => snapshot.nodes # <<>>

\* the edges into n and the edges out of n
InEdgeCount(n) == Cardinality({m \in DOMAIN G.node : <<m, n>> \in DOMAIN G.edge})

OutEdgeCount(n) == Cardinality({m \in DOMAIN G.node : <<n, m>> \in DOMAIN G.edge})

\* C24: once build_graph has completed, and from the metrics step on, every
\* node's degree attribute is the number of its incoming edges plus the
\* number of its outgoing edges in the final graph, a self-loop counting
\* twice; while records are ingested no node has a degree attribute.
C24_DegreeAttribute ==
    /\ pc \in {"ingest", "crashed"}
          => \A n \in DOMAIN G.node : "degree" \notin DOMAIN G.node[n]
    /\ pc \in {"metrics", "built", "exported", "loaded"}
          => \A n \in DOMAIN G.node :
                /\ "degree" \in DOMAIN G.node[n]
                /\ G.node[n].degree = InEdgeCount(n) + OutEdgeCount(n)

\* the graph is built and A, with a self-loop and an edge to B, has degree 3
C24_Witness ==
    /\ pc = "built"
    /\ HasEdge(G, "A", "A") /\ HasEdge(G, "A", "B") /\ ~HasEdge(G, "B", "A")
    /\ G.node["A"].degree = 3
    /\ G.node["B"].degree = 1

\* the step gives some node a community id it did not have
AttachesCommunity ==
    \E n \in DOMAIN G'.node :
        /\ "community" \in DOMAIN G'.node[n]
        /\ \/ n \notin DOMAIN G.node
           \/ "community" \notin DOMAIN G.node[n]
           \/ G.node[n].community # G'.node[n].community

\* the community ids of the nodes of graph g, by node
CommunityIds(g) ==
    [n \in {m \in DOMAIN g.node : "community" \in DOMAIN g.node[m]} |->
        g.node[n].community]

\* C25: community ids are attached only by the detection step, which runs
\* when every source has been ingested; once detection has run no node or
\* edge is created or merged; the snapshot is written only after detection,
\* from the graph as detection left it; so the community ids of a snapshot
\* are those computed for the graph it holds.
C25_PipelineOrdering ==
    /\ [][/\ AttachesCommunity => (pc = "metrics" /\ pc' = "built")
          /\ pc \in {"built", "exported", "loaded"} => G' = G
          /\ snapshot' # snapshot
                => (pc = "built" /\ snapshot' = NodeLinkData(G))]_vars
    /\ [](snapshot # NoFile
            => /\ pc \in {"exported", "loaded"}
               /\ CommunityIds(NodeLinkGraph(snapshot)) = CommunityIds(G)
               /\ DOMAIN NodeLinkGraph(snapshot).edge = DOMAIN G.edge)

\* a snapshot has been written of a graph of two communities with an edge
C25_Witness ==
    /\ snapshot # NoFile
    /\ DOMAIN G.edge # {}
    /\ \E n, m \in DOMAIN G.node :
          /\ CommunityIds(NodeLinkGraph(snapshot))[n] = 0
          /\ CommunityIds(NodeLinkGraph(snapshot))[m] = 1

-----------------------------------------------------------------------------
(* Merge commutativity: the same well-formed entity and relationship       *)
(* records are applied to two empty graphs, to G in the order of the list  *)
(* `ops` and to G2 in any order.                                           *)

PermOps ==
    {[kind |-> "entity",
      item |-> Item([entity_name |-> "A", entity_type |-> t,
                     entity_description |-> d])] :
        t \in {Unknown, T1, T2}, d \in {<<"a">>, <<"a", "b">>}}
    \cup {[kind |-> "relationship",
           item |-> Item([source_entity |-> "A", target_entity |-> "B",
                          relationship_description |-> d])] : d \in Frags}
    \cup {[kind |-> "relationship",
           item |-> Item([source_entity |-> "A", target_entity |-> "B",
                          relationship_description |-> <<"a">>,
                          relationship_strength |-> JInt(n)])] : n \in {2, 3}}

\* the builder applied to one record
Apply(g, op) ==
    IF op.kind = "entity"
    THEN ProcessEntity(g, op.item).g
    ELSE ProcessRelationship(g, op.item).g

InitPerm ==
    /\ ops \in [1..PermLen -> PermOps]
    /\ G = EmptyGraph
    /\ G2 = EmptyGraph
    /\ todo2 = 1..PermLen
    /\ nops = 0
    /\ pc = "ingest"
    /\ fed = NoItem
    /\ ingested = NoHistory
    /\ snapshot = NoFile
    /\ searcher = [G |-> NoGraph, hashseed |-> <<>>]
    /\ result = NoResult
    /\ session = NoSession
    /\ legacy = NoLegacy
    /\ batcher = NoBatcher

\* the first run applies the next record of the list
ApplyInOrder ==
    /\ nops < Len(ops)
    /\ G' = Apply(G, ops[nops + 1])
    /\ nops' = nops + 1
    /\ UNCHANGED <<pc, fed, ingested, ops, G2, todo2, snapshot, searcher, result,
                   session, legacy, batcher>>

\* the second run applies any record it has not applied yet
ApplyInAnyOrder ==
    /\ nops = Len(ops)
    /\ \E i \in todo2 :
          /\ G2' = Apply(G2, ops[i])
          /\ todo2' = todo2 \ {i}
    /\ UNCHANGED <<G, pc, nops, fed, ingested, ops, snapshot, searcher, result,
                   session, legacy, batcher>>

NextPerm == ApplyInOrder \/ ApplyInAnyOrder

SpecPerm == InitPerm /\ [][NextPerm]_vars

BothRunsDone == ops # <<>> /\ nops = Len(ops) /\ todo2 = {}

StartsWithSep(s) == Len(s) >= Len(Sep) /\ SubSeq(s, 1, Len(Sep)) = Sep

\* the pieces of a description between separators
RECURSIVE Pieces(_, _)
Pieces(s, acc) ==
    IF s = <<>> THEN {acc}
    ELSE IF StartsWithSep(s)
         THEN {acc} \cup Pieces(SubSeq(s, Len(Sep) + 1, Len(s)), <<>>)
         ELSE Pieces(Tail(s), Append(acc, Head(s)))

\* the description fragments a node or edge holds
Fragments(attrs) == Pieces(Get(attrs, "description", <<>>), <<>>) \ {<<>>}

SameNodesAndEdges ==
    /\ DOMAIN G.node = DOMAIN G2.node
    /\ DOMAIN G.edge = DOMAIN G2.edge

SameWeights == \A e \in DOMAIN G.edge : G.edge[e].weight = G2.edge[e].weight

SameTypes == \A n \in DOMAIN G.node : G.node[n].group = G2.node[n].group

SameFragments ==
    /\ \A n \in DOMAIN G.node : Fragments(G.node[n]) = Fragments(G2.node[n])
    /\ \A e \in DOMAIN G.edge : Fragments(G.edge[e]) = Fragments(G2.edge[e])

TypesGiven(n) ==
    {Get(ops[i].item.f, "entity_type", Unknown) :
        i \in {j \in 1..Len(ops) : /\ ops[j].kind = "entity"
                                   /\ ops[j].item.f.entity_name = n}}
    \ {Unknown}

-----------------------------------------------------------------------------
(* Claims about the search.  `result` holds the last call and its report,  *)
(* searcher.G the graph that was searched.                                 *)

Called == result.call.prog # "none"

\* the query, case folded, is in the name of n
NameMatch(q, n) == IsSubstr(Lower(q), Lower(Str(n)))

\* the query, case folded, is in the type of n
TypeMatch(q, n) ==
    IsSubstr(Lower(q), Lower(Str(Get(searcher.G.node[n], "group", ""))))

\* the call gave a query that is not blank and has no blanks around it
Trimmed == result.call.query # <<>> /\ Strip(result.call.query) = result.call.query

\* C14 (as claimed): a search without type hint reports a node as a name
\* match exactly when the lower-cased query is a substring of the node's
\* lower-cased name, and reports NotFound exactly when no node matches by
\* name or by type.
C14_SearchContainment ==
    (Called /\ Trimmed /\ result.call.entity_type = <<>>) =>
        /\ \A n \in DOMAIN searcher.G.node :
              InSeq(n, result.report.names) <=> NameMatch(result.call.query, n)
        /\ result.report.status = "notfound"
              <=> \A n \in DOMAIN searcher.G.node :
                     /\ ~NameMatch(result.call.query, n)
                     /\ ~TypeMatch(result.call.query, n)

\* the call went to search_graph_with_llm.py with a type hint and a query
\* that is not blank
Hinted ==
    /\ Called
    /\ result.call.prog = "search_graph_with_llm"
    /\ result.call.entity_type # <<>>
    /\ Strip(result.call.query) # <<>>

\* the type of n is in the hint or the hint is in the type of n, case folded
HintMatch(hint, n) ==
    LET type == Lower(Str(Get(searcher.G.node[n], "group", "")))
    IN  IsSubstr(type, Lower(hint)) \/ IsSubstr(Lower(hint), type)

\* the name matches are exactly the nodes whose name has the query and
\* whose type goes with the hint
FilteredByHint ==
    \A n \in DOMAIN searcher.G.node :
        InSeq(n, result.report.names)
            <=> /\ NameMatch(Strip(result.call.query), n)
                /\ HintMatch(result.call.entity_type, n)

\* C15 (as claimed): whenever a type hint is supplied, the name-match list
\* holds exactly the nodes whose name contains the query and whose type is
\* a case-insensitive substring of the hint or contains it.
C15_TypeHintFilter == Hinted => FilteredByHint

\* C15 (amended): the same, for every type hint but the literal "Unknown",
\* which search treats as no hint.
C15_TypeHintFilterButUnknown ==
    (Hinted /\ result.call.entity_type # UnknownHint) => FilteredByHint

\* a hinted search has kept one node whose name has the query and dropped
\* another for its type
C15_Witness ==
    /\ Hinted
    /\ result.call.entity_type # UnknownHint
    /\ result.report.names # <<>>
    /\ \E n \in DOMAIN searcher.G.node :
          /\ NameMatch(Strip(result.call.query), n)
          /\ ~InSeq(n, result.report.names)

\* the nodes the last search printed in detail with a community context
WithContext ==
    IF Called /\ result.report.status = "found"
    THEN {n \in DOMAIN result.report.details : result.report.details[n].context}
    ELSE {}

\* the weight of the edge u->v (1 when it states none), 0 without edge
WeightOrZero(u, v) ==
    IF <<u, v>> \in DOMAIN searcher.G.edge
    THEN Get(searcher.G.edge[<<u, v>>], "weight", 1) ELSE 0

\* m is a direct neighbour of n in the community of n
CoreEligible(n, m) ==
    /\ <<n, m>> \in DOMAIN searcher.G.edge \/ <<m, n>> \in DOMAIN searcher.G.edge
    /\ "community" \in DOMAIN searcher.G.node[m]
    /\ searcher.G.node[m].community = searcher.G.node[n].community

\* max(outgoing weight, incoming weight) of the neighbour m of n
Score(n, m) == Max(WeightOrZero(n, m), WeightOrZero(m, n))

\* x comes before y: higher key first, equal keys by name ascending
RanksBefore(x, kx, y, ky) == kx > ky \/ (kx = ky /\ TextLess(Str(x), Str(y)))

\* C16 (as claimed): the core-neighbour list of a matched node with a
\* community id holds at most 5 direct neighbours of its community, each
\* scored max(outgoing weight, incoming weight), in descending score order
\* with ties by name ascending.
C16_NeighborRanking ==
    \A n \in WithContext :
        LET core == result.report.details[n].core
        IN  /\ Len(core) <= 5
            /\ \A i \in 1..Len(core) :
                  /\ CoreEligible(n, core[i][1])
                  /\ core[i][2] = Score(n, core[i][1])
            /\ \A i, j \in 1..Len(core) :
                  i < j => RanksBefore(core[i][1], core[i][2], core[j][1], core[j][2])

\* total degree of m: edges in plus edges out
TotalDegree(m) ==
    Cardinality({e \in DOMAIN searcher.G.edge : e[1] = m})
    + Cardinality({e \in DOMAIN searcher.G.edge : e[2] = m})

\* m may be listed among the other members of the community of n
OtherEligible(n, m) ==
    /\ m # n
    /\ "community" \in DOMAIN searcher.G.node[m]
    /\ searcher.G.node[m].community = searcher.G.node[n].community
    /\ ~\E i \in 1..Len(result.report.details[n].core) :
            result.report.details[n].core[i][1] = m

\* C17 (as claimed): the other-members list of a matched node with a
\* community id holds at most 5 nodes of its community, none the node
\* itself or a listed core neighbour, by total degree descending with ties
\* by name ascending, and no member left out ranks before a member shown.
C17_OtherMembers ==
    \A n \in WithContext :
        LET others == result.report.details[n].others
        IN  /\ Len(others) <= 5
            /\ \A i \in 1..Len(others) : OtherEligible(n, others[i])
            /\ \A i, j \in 1..Len(others) :
                  i < j => RanksBefore(others[i], TotalDegree(others[i]),
                                       others[j], TotalDegree(others[j]))
            /\ \A m \in DOMAIN searcher.G.node :
                  (OtherEligible(n, m) /\ ~InSeq(m, others))
                      => \A i \in 1..Len(others) :
                            RanksBefore(others[i], TotalDegree(others[i]),
                                        m, TotalDegree(m))

\* C16 (amended): the core-neighbour list holds at most 5 direct neighbours
\* of the node's community, each scored max(outgoing weight, incoming
\* weight), in descending score order, equal scores in any order; a
\* neighbour of the community is left out only when 5 neighbours that
\* score at least as much are listed.
C16_RankedByScore ==
    \A n \in WithContext :
        LET core == result.report.details[n].core
        IN  /\ Len(core) <= 5
            /\ \A i \in 1..Len(core) :
                  /\ CoreEligible(n, core[i][1])
                  /\ core[i][2] = Score(n, core[i][1])
            /\ \A i, j \in 1..Len(core) : i < j => core[i][2] >= core[j][2]
            /\ \A m \in DOMAIN searcher.G.node :
                  (CoreEligible(n, m) /\ ~\E i \in 1..Len(core) : core[i][1] = m)
                      => /\ Len(core) = 5
                         /\ \A i \in 1..Len(core) : core[i][2] >= Score(n, m)

\* a node has been printed whose community neighbours weigh 5, 5 and 3,
\* the weight 3 by an incoming edge
C16_Witness ==
    \E n \in WithContext :
        LET core == result.report.details[n].core
        IN  /\ Len(core) = 3
            /\ core[1][2] = 5 /\ core[2][2] = 5 /\ core[3][2] = 3
            /\ WeightOrZero(n, core[3][1]) = 0

\* x comes before y: higher key first, equal keys by position in the graph
RanksBeforeInOrder(x, kx, y, ky) ==
    kx > ky \/ (kx = ky /\ Pos(searcher.G, x) < Pos(searcher.G, y))

\* C17 (amended): as claimed, but members of equal degree come in the
\* order in which the graph holds its nodes.
C17_OtherMembersInNodeOrder ==
    \A n \in WithContext :
        LET others == result.report.details[n].others
        IN  /\ Len(others) <= 5
            /\ \A i \in 1..Len(others) : OtherEligible(n, others[i])
            /\ \A i, j \in 1..Len(others) :
                  i < j => RanksBeforeInOrder(others[i], TotalDegree(others[i]),
                                              others[j], TotalDegree(others[j]))
            /\ \A m \in DOMAIN searcher.G.node :
                  (OtherEligible(n, m) /\ ~InSeq(m, others))
                      => \A i \in 1..Len(others) :
                            RanksBeforeInOrder(others[i], TotalDegree(others[i]),
                                               m, TotalDegree(m))

\* a node has been printed with core neighbours, 5 other members, two of
\* them of equal degree, and a further member left out
C17_Witness ==
    \E n \in WithContext :
        LET d == result.report.details[n]
        IN  /\ Len(d.core) > 0
            /\ Len(d.others) = 5
            /\ \E i, j \in 1..5 :
                  i # j /\ TotalDegree(d.others[i]) = TotalDegree(d.others[j])
            /\ \E m \in DOMAIN searcher.G.node :
                  OtherEligible(n, m) /\ ~InSeq(m, d.others)

NoRepeat(s) == \A i, j \in 1..Len(s) : i # j => s[i] # s[j]

\* the type of node n passes the type hint of the call, if it gives one
PassesHint(n) ==
    \/ result.call.entity_type \in {<<>>, UnknownHint}
    \/ HintMatch(result.call.entity_type, n)

\* C28: in a search with type matching, no node is listed twice among the
\* name matches or among the type matches, no node is in both lists, and a
\* node that matches by name and by type and passes the type hint is a name
\* match only.
C28_MatchListsDisjoint ==
    (Called /\ result.call.prog = "search_graph_with_llm") =>
        /\ NoRepeat(result.report.names)
        /\ NoRepeat(result.report.types)
        /\ \A n \in DOMAIN searcher.G.node :
              ~(InSeq(n, result.report.names) /\ InSeq(n, result.report.types))
        /\ Strip(result.call.query) # <<>>
              => \A n \in DOMAIN searcher.G.node :
                    (/\ NameMatch(Strip(result.call.query), n)
                     /\ TypeMatch(Strip(result.call.query), n)
                     /\ PassesHint(n))
                        => /\ InSeq(n, result.report.names)
                           /\ ~InSeq(n, result.report.types)

\* a hinted search has listed a node that matches by name and by type among
\* the name matches, and other nodes among the type matches
C28_Witness ==
    /\ Called
    /\ result.call.prog = "search_graph_with_llm"
    /\ result.call.entity_type \notin {<<>>, UnknownHint}
    /\ result.report.types # <<>>
    /\ \E n \in DOMAIN searcher.G.node :
          /\ NameMatch(Strip(result.call.query), n)
          /\ TypeMatch(Strip(result.call.query), n)
          /\ InSeq(n, result.report.names)

\* the text q is empty or has blanks only
Blank(q) == \A i \in 1..Len(q) : q[i] = " "

\* the searcher has no graph, or a graph without nodes
NothingLoaded == "none" \in DOMAIN searcher.G \/ DOMAIN searcher.G.node = {}

\* C29: a search with a query that is empty or only blanks, and any search
\* on a searcher whose graph is absent or has no nodes, returns without
\* reporting an entity and without reporting NotFound.
C29_BlankQuerySilent ==
    (Called /\ (Blank(result.call.query) \/ NothingLoaded)) =>
        /\ result.report.status = "silent"
        /\ result.report.names = <<>>
        /\ result.report.types = <<>>
        /\ DOMAIN result.report.details = {}

\* a query of one blank has been searched on a graph with nodes
C29_Witness ==
    /\ Called
    /\ result.call.query = <<" ">>
    /\ ~NothingLoaded
    /\ result.report.status = "silent"

\* how often the text d occurs in the text cur
Occurrences(d, cur) ==
    Cardinality({i \in 0..(Len(cur) - Len(d)) : SubSeq(cur, i + 1, i + Len(d)) = d})

\* the last call was search("A") without a type hint that filters
SearchedA ==
    /\ Called
    /\ result.call.query = <<"A">>
    /\ result.call.entity_type \in {<<>>, UnknownHint}

\* C23: once the person A, the place B and, twice, the relationship A -> B
\* of strength 4 described "go" are ingested, the graph has the single edge
\* A -> B, of weight 8, whose description has "go" exactly once; and
\* search("A") on the snapshot of that graph reports node A with exactly
\* one outgoing edge, to B, of weight 8.
C23_EndToEnd ==
    /\ (pc # "ingest" \/ nops = Len(ops))
          => /\ pc # "crashed"
             /\ DOMAIN G.edge = {<<"A", "B">>}
             /\ G.edge[<<"A", "B">>].weight = 8
             /\ Occurrences(Go, G.edge[<<"A", "B">>].description) = 1
             /\ G.node["A"].group = T1
             /\ G.node["B"].group = T2
    /\ SearchedA
          => /\ result.report.status = "found"
             /\ result.report.names = <<"A">>
             /\ result.report.details["A"].out = {<<"B", Go, 8>>}

\* search("A") has reported on the snapshot of the scenario's graph
C23_Witness ==
    /\ SearchedA
    /\ result.call.prog = "search_graph"
    /\ "A" \in DOMAIN result.report.details
    /\ ingested[<<"A", "B">>].cnt = 2
    /\ HasEdge(searcher.G, "A", "B")

\* what the call reports when it is the only one made on the snapshot
ReportAlone(call) ==
    IF call.prog = "search_graph"
    THEN Search(NodeLinkGraph(snapshot), searcher.hashseed, call.query)
    ELSE SearchLLM(NodeLinkGraph(snapshot), searcher.hashseed, call.query,
                   call.entity_type)

-----------------------------------------------------------------------------
(* Claims about create_graph.  legacy.triples holds the triples read. *)

\* the positions of the triples read for the pair e
TriplesOf(e) ==
    {i \in 1..Len(legacy.triples) :
        legacy.triples[i].subject = e[1] /\ legacy.triples[i].object = e[2]}

\* C26: after any sequence of triples, every (subject, object) pair read is
\* an edge whose weight equals the length of its relations list, which is
\* the number of triples read for the pair, and whose label is the relation
\* of the first of them.
C26_LegacyEdgeWeight ==
    /\ DOMAIN legacy.G.edge
          = {<<legacy.triples[i].subject, legacy.triples[i].object>> :
                i \in 1..Len(legacy.triples)}
    /\ \A e \in DOMAIN legacy.G.edge :
          LET first == CHOOSE i \in TriplesOf(e) : \A j \in TriplesOf(e) : i <= j
          IN  /\ legacy.G.edge[e].weight = Len(legacy.G.edge[e].relations)
              /\ legacy.G.edge[e].weight = Cardinality(TriplesOf(e))
              /\ legacy.G.edge[e].label = legacy.triples[first].relation

\* create_graph has returned an edge read twice, with two relations
C26_Witness ==
    /\ legacy.at = "returned"
    /\ \E e \in DOMAIN legacy.G.edge :
          /\ legacy.G.edge[e].weight = 2
          /\ legacy.G.edge[e].relations[1] # legacy.G.edge[e].relations[2]

\* C27 (as claimed): after any sequence of triples, the type entity_types
\* records for a node is the entity_type attribute of that node.
C27_EntityTypesAgree ==
    \A n \in DOMAIN legacy.entity_types :
        /\ n \in DOMAIN legacy.G.node
        /\ legacy.entity_types[n] = legacy.G.node[n].entity_type

-----------------------------------------------------------------------------
(* Claims about process_json_file.  batcher.batches holds the batches sent *)
(* to the service, batcher.responses what it answered.                     *)

\* ceil(n / d)
CeilDiv(n, d) == CHOOSE k \in 0..n : k * d >= n /\ (k = 0 \/ (k - 1) * d < n)

\* s[1] \o s[2] \o ... \o s[Len(s)]
RECURSIVE Concat(_)
Concat(s) == IF s = <<>> THEN <<>> ELSE Head(s) \o Concat(Tail(s))

\* the function ran through all its batches
RanThrough == batcher.at = "returned" /\ ~batcher.raised

\* C30: for n messages the batches number ceil(n/20), each has at most 20
\* messages, and together they are the messages, each once, in their order;
\* a response that cannot be parsed adds nothing and the batches after it
\* are processed all the same; the two lists returned have the same length,
\* at most the number of batches.
C30_Batching ==
    /\ RanThrough =>
          /\ Len(batcher.batches) = CeilDiv(Len(batcher.data), 20)
          /\ \A i \in 1..Len(batcher.batches) : Len(batcher.batches[i]) <= 20
          /\ Concat(batcher.batches) = batcher.data
          /\ Len(batcher.ret.parsed)
                = Cardinality({i \in 1..Len(batcher.responses) :
                                  batcher.responses[i] = "object"})
    /\ (\A i \in 1..Len(batcher.responses) :
            batcher.responses[i] \in {"object", "garbage"}) /\ batcher.bad = 0
          => /\ ~batcher.raised
             /\ \A i \in 1..Len(batcher.parsed) :
                   batcher.responses[batcher.parsed[i].of] = "object"
    /\ Len(batcher.parsed) = Len(batcher.texts)
    /\ batcher.at = "returned" =>
          /\ Len(batcher.ret.parsed) = Len(batcher.ret.texts)
          /\ Len(batcher.ret.parsed) <= CeilDiv(Len(batcher.data), 20)

\* 41 messages went out in three batches, the second response could not be
\* parsed, and two entries were returned
C30_Witness ==
    /\ RanThrough
    /\ Len(batcher.data) = 41
    /\ batcher.responses = <<"object", "garbage", "object">>
    /\ Len(batcher.batches[3]) = 1
    /\ Len(batcher.ret.parsed) = 2

-----------------------------------------------------------------------------
(* Claims about the interactive programs.  In a step taken at the prompt,  *)
(* session' tells what the turn read and how it ended.                     *)

\* the turn read a line that is no sentinel, blanks around it aside
ReadQuery ==
    session'.event = "line" /\ Lower(Strip(session'.line)) \notin Sentinels

\* the line read is not blank and is in no node's name and in no node's type
MatchesNothing ==
    /\ Strip(session'.line) # <<>>
    /\ \A n \in DOMAIN searcher.G.node :
          /\ ~NameMatch(Strip(session'.line), n)
          /\ ~TypeMatch(Strip(session'.line), n)

\* the line read is in the name of a node that has an edge, in or out,
\* without a description
HitsBareEdge ==
    /\ Strip(session'.line) # <<>>
    /\ \E n \in DOMAIN searcher.G.node :
          /\ NameMatch(Strip(session'.line), n)
          /\ \E e \in DOMAIN searcher.G.edge :
                n \in {e[1], e[2]} /\ "description" \notin DOMAIN searcher.G.edge[e]

\* C21: in every query loop a turn ends the session only when it read a
\* sentinel (q, exit, quit) or was interrupted; a turn that read a query
\* goes back to the prompt, having reported what it found, that it found
\* nothing, or the error: a query that matches nothing is answered by the
\* not-found message (or an error report), and in search_node_relations.py
\* a query whose matched node has an edge without description is answered
\* by the error report; so is the end of the input.
C21_SessionLiveness ==
    [][session.at = "prompt" =>
          /\ session'.at \in {"prompt", "ended"}
          /\ session'.at = "ended"
                => \/ session'.event = "interrupt"
                   \/ /\ session'.event = "line"
                      /\ Lower(Strip(session'.line)) \in Sentinels
          /\ ReadQuery
                => /\ session'.at = "prompt"
                   /\ session'.said \in {"found", "notfound", "error", "silent"}
          /\ (ReadQuery /\ MatchesNothing)
                => session'.said \in {"notfound", "error"}
          /\ (ReadQuery /\ HitsBareEdge /\ session.prog = "search_node_relations")
                => session'.said = "error"
          /\ session'.event = "eof"
                => (session'.at = "prompt" /\ session'.said = "error")]_vars

\* search_node_relations.py is back at its prompt, having reported the
\* error of a query whose node has an edge without description
C21_Witness ==
    /\ session.prog = "search_node_relations"
    /\ session.at = "prompt"
    /\ session.event = "line"
    /\ session.said = "error"
    /\ \E n \in DOMAIN searcher.G.node :
          /\ NameMatch(Strip(session.line), n)
          /\ \E e \in DOMAIN searcher.G.edge :
                n \in {e[1], e[2]} /\ "description" \notin DOMAIN searcher.G.edge[e]

====
